---- MODULE Spec2Model ----
(***************************************************************************)
(* dom-to-pptx: the slide pipeline of src/index.js (processSlide) with the *)
(* node classifier of src/element-renderer.js, and the pure style/geometry *)
(* helpers of src/style.js, src/svg.js, src/image-processor.js and         *)
(* src/canvas-capture.js.                                                  *)
(***************************************************************************)
EXTENDS Integers, Sequences, FiniteSets, TLC

\* ------------------------------------------------------------------------
\* Bounds of the model
\* ------------------------------------------------------------------------
\* Number of DOM nodes of the slide tree, root included.
MaxNodes == 3
\* Number of distinct strings Math.random() may yield for a clip id.
MaxClipIds == 2

\* ------------------------------------------------------------------------
\* The DOM tree handed to processSlide
\* ------------------------------------------------------------------------
Nodes == 1..MaxNodes
Root == 1

\* Computed z-index of an element: 'auto' or an integer (parseInt).
ZAuto == [auto |-> TRUE, value |-> 0]
ZInt(v) == [auto |-> FALSE, value |-> v]
ZChoices == {ZAuto, ZInt(5)}

\* What the classifier sees at a node, with the result its deferred job
\* will meet (fixed per node; "none" for a node without a job).
\*   div     element with a solid background (generic path, one shape)
\*   border  element with a solid background and a composite border
\*   hidden  element with display:none / visibility:hidden / opacity 0
\*   zero    element whose bounding box is narrower or lower than 0.5px
\*           (met by the walk of pruned nodes only)
\*   canvas  CANVAS without data-chart: toDataURL yields data or throws
\*   svg     inline SVG: the converter resolves data, resolves null, or
\*           throws in its promise executor (the promise is rejected)
\*   img     IMG: getProcessedImage resolves data or null (onerror)
KindOutcomes ==
  { <<"div", "none">>, <<"border", "none">>, <<"hidden", "none">>,
    <<"canvas", "data">>, <<"canvas", "throw">>,
    <<"svg", "data">>, <<"svg", "null">>, <<"svg", "throw">>,
    <<"img", "data">>, <<"img", "null">> }

NodeInfos ==
  { [kind |-> ko[1], outcome |-> ko[2], z |-> zc] : ko \in KindOutcomes, zc \in ZChoices }

RootInfo == [kind |-> "root", outcome |-> "none", z |-> ZAuto]

RECURSIVE IsAncestorOrSelf(_, _, _)
IsAncestorOrSelf(p, a, n) ==
  IF a = n THEN TRUE
  ELSE IF n = Root THEN FALSE
  ELSE IsAncestorOrSelf(p, a, p[n])

\* Parent maps of trees whose node numbers are the document (pre-order) order.
ParentMaps ==
  { p \in [Nodes -> Nodes \cup {0}] :
      /\ p[Root] = 0
      /\ \A n \in Nodes \ {Root} :
           /\ p[n] \in 1..(n - 1)
           /\ IsAncestorOrSelf(p, p[n], n - 1) }

RECURSIVE AscendingSeq(_)
AscendingSeq(S) ==
  IF S = {} THEN <<>>
  ELSE LET m == CHOOSE x \in S : \A y \in S : x <= y
       IN  <<m>> \o AscendingSeq(S \ {m})

VARIABLES
  parent,           \* DOM: parent of each node (0 for the root)
  nodeInfo,         \* DOM: per node, what the classifier and its job see
  pc,               \* position of processSlide
  stack,            \* pending collect(node, parentZIndex) calls, innermost first
  domOrderCounter,
  renderQueue,
  asyncTasks,
  settleLog,        \* the suspended jobs in the order they resumed
  drawn,            \* draw commands issued on the slide, in order
  second,           \* TRUE in a second processSlide call on the same tree
  prevDrawn,        \* the draw commands of the first call
  prevSettleLog     \* the order in which the first call's jobs resumed

pipeVars ==
  <<parent, nodeInfo, pc, stack, domOrderCounter, renderQueue, asyncTasks,
    settleLog, drawn, second, prevDrawn, prevSettleLog>>

\* node.childNodes
childNodes(n) == AscendingSeq({c \in Nodes : parent[c] = n})

\* ------------------------------------------------------------------------
\* Render items
\* ------------------------------------------------------------------------
NoData == [src |-> "null", id |-> 0]
JobData(n) == [src |-> "job", id |-> n]

\* generateCompositeBorderSVG: the payload embeds the clip id drawn from
\* Math.random().
generateCompositeBorderSVG(clip) == [src |-> "compositeBorderSvg", id |-> clip]

Item(type, z, order, n, data) ==
  [type |-> type, zIndex |-> z, domOrder |-> order, node |-> n,
   data |-> data, skip |-> FALSE]

\* prepareRenderItem(node, config, domOrder, pptx, effectiveZIndex, ...):
\* { items, job, stopRecursion }; null is the empty result.
prepareRenderItem(n, order, z, clip) ==
  LET k == nodeInfo[n].kind IN
  CASE k = "root" ->
         [items |-> <<>>, job |-> FALSE, stopRecursion |-> FALSE]
    [] k = "zero" ->
         [items |-> <<>>, job |-> FALSE, stopRecursion |-> FALSE]
    [] k \in {"canvas", "svg", "img"} ->
         [items |-> <<Item("image", z, order, n, NoData)>>,
          job |-> TRUE, stopRecursion |-> TRUE]
    [] k = "div" ->
         [items |-> <<Item("shape", z, order, n, NoData)>>,
          job |-> FALSE, stopRecursion |-> FALSE]
    [] k = "border" ->
         [items |-> <<Item("shape", z, order, n, NoData),
                      Item("image", z + 1, order, n, generateCompositeBorderSVG(clip))>>,
          job |-> FALSE, stopRecursion |-> FALSE]

\* A task pushed on asyncTasks: the job closure of one node and the item it
\* owns (its place in renderQueue); a job is not invoked when it is pushed.
NewTaskInvokedAtPush(n, itemIdx) == [node |-> n, item |-> itemIdx, status |-> "pending"]

NewTask(n, itemIdx) == [node |-> n, item |-> itemIdx, status |-> "registered"]

\* ------------------------------------------------------------------------
\* processSlide
\* ------------------------------------------------------------------------
ResetRun ==
  /\ pc = "walk"
  /\ stack = <<[node |-> Root, parentZIndex |-> 0]>>
  /\ domOrderCounter = 0
  /\ renderQueue = <<>>
  /\ asyncTasks = <<>>
  /\ settleLog = <<>>
  /\ drawn = <<>>

InitPipe ==
  /\ parent \in ParentMaps
  /\ nodeInfo \in { f \in [Nodes -> NodeInfos \cup {RootInfo}] :
                      /\ f[Root] = RootInfo
                      /\ \A n \in Nodes \ {Root} : f[n] \in NodeInfos }
  /\ ResetRun
  /\ second = FALSE
  /\ prevDrawn = <<>>
  /\ prevSettleLog = <<>>

\* let currentZ = parentZIndex;
\* if (nodeStyle.zIndex !== 'auto') currentZ = parseInt(nodeStyle.zIndex);
EffectiveZParentOnly(n, parentZIndex) == parentZIndex

EffectiveZ(n, parentZIndex) ==
  IF ~nodeInfo[n].z.auto THEN nodeInfo[n].z.value ELSE parentZIndex

\* if (result.stopRecursion) return;  -- otherwise the children are visited.
DescendsAlways(result) == TRUE

Descends(result) == ~result.stopRecursion

\* One call collect(node, parentZIndex).
Collect ==
  /\ pc = "walk"
  /\ stack # <<>>
  /\ LET fr == Head(stack)
         n == fr.node
         order == domOrderCounter
         hiddenNode == nodeInfo[n].kind = "hidden"
         currentZ == EffectiveZ(n, fr.parentZIndex)
     IN  /\ domOrderCounter' = domOrderCounter + 1
         /\ IF hiddenNode
            THEN /\ stack' = Tail(stack)
                 /\ UNCHANGED <<renderQueue, asyncTasks>>
            ELSE \E clip \in 1..MaxClipIds :
                   LET result == prepareRenderItem(n, order, currentZ, clip)
                       kids == childNodes(n)
                       frames == [i \in 1..Len(kids) |->
                                    [node |-> kids[i], parentZIndex |-> currentZ]]
                   IN  /\ renderQueue' = renderQueue \o result.items
                       /\ asyncTasks' =
                            IF result.job
                            THEN Append(asyncTasks, NewTask(n, Len(renderQueue) + 1))
                            ELSE asyncTasks
                       /\ stack' = IF Descends(result)
                                   THEN frames \o Tail(stack)
                                   ELSE Tail(stack)
  /\ UNCHANGED <<parent, nodeInfo, pc, settleLog, drawn, second, prevDrawn, prevSettleLog>>

\* ------------------------------------------------------------------------
\* Deferred jobs
\* ------------------------------------------------------------------------
\* The CANVAS job wraps its body in try/catch; the SVG, IMG and icon jobs
\* await their converter with no handler.
JobCatches(kind) == kind = "canvas"

\* The CANVAS job has no await: it runs to its end when it is invoked.
JobIsSynchronous(kind) == kind = "canvas"

\* How the job's promise settles.
JobSettlesRejected(kind, outcome) == outcome = "throw" /\ ~JobCatches(kind)

\* What a job writes to the item it owns when it ends with `outcome`.
JobWriteReordering(item, kind, outcome) ==
  LET moved == [item EXCEPT !.domOrder = Len(settleLog)]
  IN  IF JobSettlesRejected(kind, outcome) THEN moved
      ELSE IF outcome = "data" THEN [moved EXCEPT !.data = JobData(item.node)]
      ELSE [moved EXCEPT !.skip = TRUE]

JobWrite(item, kind, outcome) ==
  IF JobSettlesRejected(kind, outcome) THEN item
  ELSE IF outcome = "data" THEN [item EXCEPT !.data = JobData(item.node)]
  ELSE [item EXCEPT !.skip = TRUE]

AllFulfilled == \A j \in 1..Len(asyncTasks) : asyncTasks[j].status = "fulfilled"
SomeRejected == \E j \in 1..Len(asyncTasks) : asyncTasks[j].status = "rejected"

\* collect(root, 0) has returned: Promise.all(asyncTasks.map((task) => task()))
\* invokes every task in order; each runs up to its first await.
StartJobs ==
  /\ pc = "walk"
  /\ stack = <<>>
  /\ pc' = "jobs"
  /\ LET runsNow(j) == /\ asyncTasks[j].status = "registered"
                       /\ JobIsSynchronous(nodeInfo[asyncTasks[j].node].kind)
     IN  /\ asyncTasks' =
               [j \in 1..Len(asyncTasks) |->
                  IF asyncTasks[j].status # "registered" THEN asyncTasks[j]
                  ELSE IF runsNow(j)
                       THEN [asyncTasks[j] EXCEPT !.status = "fulfilled"]
                       ELSE [asyncTasks[j] EXCEPT !.status = "pending"]]
         /\ renderQueue' =
               [i \in 1..Len(renderQueue) |->
                  IF \E j \in 1..Len(asyncTasks) : runsNow(j) /\ asyncTasks[j].item = i
                  THEN JobWrite(renderQueue[i], nodeInfo[renderQueue[i].node].kind,
                                nodeInfo[renderQueue[i].node].outcome)
                  ELSE renderQueue[i]]
  /\ UNCHANGED <<parent, nodeInfo, stack, domOrderCounter, settleLog, drawn, second,
                 prevDrawn, prevSettleLog>>

\* A suspended job resumes after its await and runs to its end.
SettleJob(j) ==
  /\ pc \in {"jobs", "aborted"}
  /\ asyncTasks[j].status = "pending"
  /\ LET t == asyncTasks[j]
         kind == nodeInfo[t.node].kind
         outcome == nodeInfo[t.node].outcome
     IN  /\ renderQueue' =
               [renderQueue EXCEPT ![t.item] = JobWrite(renderQueue[t.item], kind, outcome)]
         /\ asyncTasks' =
               [asyncTasks EXCEPT ![j].status =
                  IF JobSettlesRejected(kind, outcome) THEN "rejected" ELSE "fulfilled"]
  /\ settleLog' = Append(settleLog, asyncTasks[j].node)
  /\ UNCHANGED <<parent, nodeInfo, pc, stack, domOrderCounter, drawn, second, prevDrawn,
                 prevSettleLog>>

\* ------------------------------------------------------------------------
\* Filter, sort and emit
\* ------------------------------------------------------------------------
\* .filter((item) => !item.skip && (item.type !== 'image' || item.options.data))
Keep(item) == ~item.skip /\ (item.type # "image" \/ item.data # NoData)

\* The comparator handed to sort(): negative, zero or positive.
CompareDomOrderOnly(a, b) == a.domOrder - b.domOrder

Compare(a, b) ==
  IF a.zIndex # b.zIndex THEN a.zIndex - b.zIndex ELSE a.domOrder - b.domOrder

\* Array.prototype.sort is stable: an element goes after every element that
\* does not compare greater than it.
RECURSIVE InsertSorted(_, _)
InsertSorted(s, x) ==
  IF s = <<>> THEN <<x>>
  ELSE IF Compare(Head(s), x) > 0 THEN <<x>> \o s
  ELSE <<Head(s)>> \o InsertSorted(Tail(s), x)

RECURSIVE SortQueue(_)
SortQueue(s) ==
  IF s = <<>> THEN <<>>
  ELSE InsertSorted(SortQueue(SubSeq(s, 1, Len(s) - 1)), s[Len(s)])

FinalQueue(q) == SortQueue(SelectSeq(q, Keep))

\* The slide call an item of the final queue results in.
DrawsCommand(item) == item.type \in {"shape", "image", "chart", "text", "table"}

DrawCommand(item) ==
  [cmd |-> CASE item.type = "shape" -> "addShape"
             [] item.type = "image" -> "addImage"
             [] item.type = "chart" -> "addChart"
             [] item.type = "text" -> "addText"
             [] item.type = "table" -> "addTable",
   zIndex |-> item.zIndex, domOrder |-> item.domOrder, node |-> item.node,
   data |-> item.data]

DrawAll(q) ==
  LET d == SelectSeq(q, DrawsCommand)
  IN  [i \in 1..Len(d) |-> DrawCommand(d[i])]

\* Promise.all fulfilled (or there was no task): filter, sort, draw.
Emit ==
  /\ pc = "jobs"
  /\ AllFulfilled
  /\ drawn' = DrawAll(FinalQueue(renderQueue))
  /\ pc' = "done"
  /\ UNCHANGED <<parent, nodeInfo, stack, domOrderCounter, renderQueue, asyncTasks,
                 settleLog, second, prevDrawn, prevSettleLog>>

\* Promise.all rejected: the await throws and processSlide rejects.
Abort ==
  /\ pc = "jobs"
  /\ SomeRejected
  /\ pc' = "aborted"
  /\ UNCHANGED <<parent, nodeInfo, stack, domOrderCounter, renderQueue, asyncTasks,
                 settleLog, drawn, second, prevDrawn, prevSettleLog>>

\* The caller converts the same, unchanged tree once more.
Rerun ==
  /\ pc = "done"
  /\ ~second
  /\ second' = TRUE
  /\ prevDrawn' = drawn
  /\ prevSettleLog' = settleLog
  /\ settleLog' = <<>>
  /\ pc' = "walk"
  /\ stack' = <<[node |-> Root, parentZIndex |-> 0]>>
  /\ domOrderCounter' = 0
  /\ renderQueue' = <<>>
  /\ asyncTasks' = <<>>
  /\ drawn' = <<>>
  /\ UNCHANGED <<parent, nodeInfo>>

\* ------------------------------------------------------------------------
\* Exact rational arithmetic (the code computes in IEEE doubles; the model
\* computes the same expressions over the rationals)
\* ------------------------------------------------------------------------
RECURSIVE GCD(_, _)
GCD(a, b) == IF b = 0 THEN a ELSE GCD(b, a % b)

Abs(a) == IF a < 0 THEN -a ELSE a

\* n/d in lowest terms with d > 0.
Rat(n, d) ==
  LET g == GCD(Abs(n), Abs(d))
      sg == IF d < 0 THEN -1 ELSE 1
  IN  [n |-> sg * (n \div g), d |-> sg * (d \div g)]

RInt(k) == [n |-> k, d |-> 1]
RAdd(a, b) == Rat(a.n * b.d + b.n * a.d, a.d * b.d)
RSub(a, b) == Rat(a.n * b.d - b.n * a.d, a.d * b.d)
RMul(a, b) == Rat(a.n * b.n, a.d * b.d)
RDiv(a, b) == Rat(a.n * b.d, a.d * b.n)
RLe(a, b) == a.n * b.d <= b.n * a.d
RLt(a, b) == a.n * b.d < b.n * a.d
RMin(a, b) == IF RLe(a, b) THEN a ELSE b
RMax(a, b) == IF RLe(a, b) THEN b ELSE a

\* ------------------------------------------------------------------------
\* Coordinate mapping: processSlide's layoutConfig and the element geometry
\* of prepareRenderItem
\* ------------------------------------------------------------------------
\* Largest width and height of the root rectangle, in CSS pixels.
MaxRootPx == 5

PPI == 96
PX_TO_INCH == Rat(1, PPI)
PPTX_WIDTH_IN == 10
PPTX_HEIGHT_IN == Rat(5625, 1000)

VARIABLES
  fitPc,            \* "start", "configured" (layoutConfig built), "placed"
  rootRect,         \* root.getBoundingClientRect()
  elemRect,         \* getBoundingClientRect() of the element being placed
  layoutConfig,
  placed            \* x, y, w, h of the element in inches

fitVars == <<fitPc, rootRect, elemRect, layoutConfig, placed>>

\* scale = Math.min(PPTX_WIDTH_IN / contentWidthIn, PPTX_HEIGHT_IN / contentHeightIn)
FitScaleLargest(contentWidthIn, contentHeightIn) ==
  RMax(RDiv(RInt(PPTX_WIDTH_IN), contentWidthIn), RDiv(PPTX_HEIGHT_IN, contentHeightIn))

FitScale(contentWidthIn, contentHeightIn) ==
  RMin(RDiv(RInt(PPTX_WIDTH_IN), contentWidthIn), RDiv(PPTX_HEIGHT_IN, contentHeightIn))

contentWidthIn(rect) == RMul(RInt(rect.width), PX_TO_INCH)
contentHeightIn(rect) == RMul(RInt(rect.height), PX_TO_INCH)

LayoutConfigOf(rect) ==
  LET scale == FitScale(contentWidthIn(rect), contentHeightIn(rect))
  IN  [rootX |-> rect.x, rootY |-> rect.y, scale |-> scale,
       offX |-> RDiv(RSub(RInt(PPTX_WIDTH_IN), RMul(contentWidthIn(rect), scale)), RInt(2)),
       offY |-> RDiv(RSub(PPTX_HEIGHT_IN, RMul(contentHeightIn(rect), scale)), RInt(2))]

\* x, y, w, h of an unrotated element (offsetWidth = rect.width): the centre
\* of its rectangle is mapped and half the scaled size subtracted.
ElementGeometry(config, rect) ==
  LET widthPx == RInt(rect.width)
      heightPx == RInt(rect.height)
      unrotatedW == RMul(RMul(widthPx, PX_TO_INCH), config.scale)
      unrotatedH == RMul(RMul(heightPx, PX_TO_INCH), config.scale)
      centerX == RAdd(RInt(rect.left), RDiv(RInt(rect.width), RInt(2)))
      centerY == RAdd(RInt(rect.top), RDiv(RInt(rect.height), RInt(2)))
  IN  [x |-> RSub(RAdd(config.offX,
                        RMul(RMul(RSub(centerX, RInt(config.rootX)), PX_TO_INCH), config.scale)),
                   RDiv(unrotatedW, RInt(2))),
       y |-> RSub(RAdd(config.offY,
                        RMul(RMul(RSub(centerY, RInt(config.rootY)), PX_TO_INCH), config.scale)),
                   RDiv(unrotatedH, RInt(2))),
       w |-> unrotatedW,
       h |-> unrotatedH]

NoRect == [left |-> 0, top |-> 0, width |-> 0, height |-> 0]
NoConfig == [rootX |-> 0, rootY |-> 0, scale |-> RInt(0), offX |-> RInt(0), offY |-> RInt(0)]
NoGeometry == [x |-> RInt(0), y |-> RInt(0), w |-> RInt(0), h |-> RInt(0)]

IdleFit ==
  /\ fitPc = "idle"
  /\ rootRect = [x |-> 0, y |-> 0, width |-> 0, height |-> 0]
  /\ elemRect = NoRect
  /\ layoutConfig = NoConfig
  /\ placed = NoGeometry

\* A root of positive width and height at some page offset.
InitFit ==
  /\ fitPc = "start"
  /\ rootRect \in [x : {0, 7}, y : {0, 3}, width : 1..MaxRootPx, height : 1..MaxRootPx]
  /\ elemRect = NoRect
  /\ layoutConfig = NoConfig
  /\ placed = NoGeometry

\* processSlide, up to the construction of layoutConfig.
ComputeLayout ==
  /\ fitPc = "start"
  /\ layoutConfig' = LayoutConfigOf(rootRect)
  /\ fitPc' = "configured"
  /\ UNCHANGED <<rootRect, elemRect, placed>>

\* prepareRenderItem computes the geometry of an element lying inside the
\* root rectangle.
PlaceElement ==
  /\ fitPc \in {"configured", "placed"}
  /\ \E l \in 0..(rootRect.width - 1), t \in 0..(rootRect.height - 1) :
       \E w \in 1..(rootRect.width - l), h \in 1..(rootRect.height - t) :
         LET rect == [left |-> rootRect.x + l, top |-> rootRect.y + t,
                      width |-> w, height |-> h]
         IN  /\ elemRect' = rect
             /\ placed' = ElementGeometry(layoutConfig, rect)
  /\ fitPc' = "placed"
  /\ UNCHANGED <<rootRect, layoutConfig>>

NextFit == ComputeLayout \/ PlaceElement

\* ------------------------------------------------------------------------
\* Colors (color.js) and border classification (style.js)
\* ------------------------------------------------------------------------
\* Largest border width of a side, in CSS pixels.
MaxBorderWidth == 1

\* A computed CSS color: the channels and the alpha in percent.
CssColor(r, g, b, a) == [r |-> r, g |-> g, b |-> b, a |-> a]
CssTransparent == CssColor(0, 0, 0, 0)

HexDigit == <<"0", "1", "2", "3", "4", "5", "6", "7", "8", "9", "A", "B", "C", "D", "E", "F">>
HexByte(v) == <<HexDigit[(v \div 16) + 1], HexDigit[(v % 16) + 1]>>
\* ((1 << 24) + (r << 16) + (g << 8) + b).toString(16).slice(1).toUpperCase()
HexOf(r, g, b) == HexByte(r) \o HexByte(g) \o HexByte(b)
NullHex == <<>>

\* parseColor(str) for a computed color: 'rgba(0, 0, 0, 0)' is transparent;
\* the canvas serializes an opaque color as '#rrggbb' and any other as
\* 'rgba(r, g, b, a)'.
parseColor(c) ==
  IF c = CssTransparent THEN [hex |-> NullHex, opacity |-> RInt(0)]
  ELSE IF c.a = 100 THEN [hex |-> HexOf(c.r, c.g, c.b), opacity |-> RInt(1)]
  ELSE [hex |-> HexOf(c.r, c.g, c.b), opacity |-> Rat(c.a, 100)]

mapDashType(style) ==
  IF style = "dashed" THEN "dash"
  ELSE IF style = "dotted" THEN "dot"
  ELSE "solid"

VARIABLES
  borderPc,         \* "start", "done"
  borderStyle,      \* the four border sides of a computed style
  borderInfo        \* the result of getBorderInfo

borderVars == <<borderPc, borderStyle, borderInfo>>

SideNames == {"top", "right", "bottom", "left"}
BorderColors == {CssColor(255, 0, 0, 100), CssColor(255, 0, 0, 50), CssTransparent}
BorderSides == [width : 0..MaxBorderWidth, style : {"solid", "dashed"}, color : BorderColors]

\* read(side): { width, style, color: parseColor(...).hex }
ReadSide(side) ==
  [width |-> side.width, style |-> side.style, color |-> parseColor(side.color).hex]

NoBorderOptions ==
  [width |-> RInt(0), color |-> NullHex, transparency |-> RInt(0), dashType |-> "solid"]
NoBorderSides == [n \in SideNames |-> [width |-> 0, style |-> "none", color |-> NullHex]]

getBorderInfo(style, scale) ==
  LET top == ReadSide(style["top"])
      right == ReadSide(style["right"])
      bottom == ReadSide(style["bottom"])
      left == ReadSide(style["left"])
      isUniform ==
        /\ top.width = right.width /\ top.width = bottom.width /\ top.width = left.width
        /\ top.style = right.style /\ top.style = bottom.style /\ top.style = left.style
        /\ top.color = right.color /\ top.color = bottom.color /\ top.color = left.color
  IN  IF top.width = 0 /\ right.width = 0 /\ bottom.width = 0 /\ left.width = 0
      THEN [type |-> "none", options |-> NoBorderOptions, sides |-> NoBorderSides]
      ELSE IF isUniform
      THEN [type |-> "uniform",
            options |->
              [width |-> RMul(RMul(RInt(top.width), Rat(75, 100)), scale),
               color |-> top.color,
               transparency |->
                 RMul(RSub(RInt(1), parseColor(style["top"].color).opacity), RInt(100)),
               dashType |-> mapDashType(top.style)],
            sides |-> NoBorderSides]
      ELSE [type |-> "composite", options |-> NoBorderOptions,
            sides |-> [n \in SideNames |->
                         CASE n = "top" -> top [] n = "right" -> right
                           [] n = "bottom" -> bottom [] n = "left" -> left]]

IdleBorder ==
  /\ borderPc = "idle"
  /\ borderStyle = [n \in SideNames |-> [width |-> 0, style |-> "solid", color |-> CssTransparent]]
  /\ borderInfo = [type |-> "none", options |-> NoBorderOptions, sides |-> NoBorderSides]

InitBorder ==
  /\ borderPc = "start"
  /\ borderStyle \in [SideNames -> BorderSides]
  /\ borderInfo = [type |-> "none", options |-> NoBorderOptions, sides |-> NoBorderSides]

ClassifyBorder ==
  /\ borderPc = "start"
  /\ \E scale \in {RInt(1), Rat(1, 2)} : borderInfo' = getBorderInfo(borderStyle, scale)
  /\ borderPc' = "done"
  /\ UNCHANGED borderStyle

NextBorder == ClassifyBorder

\* ------------------------------------------------------------------------
\* Corner-radius legalization (svg.js, image-processor.js, canvas-capture.js)
\* ------------------------------------------------------------------------
\* Largest width and height in half pixels, and largest corner radius in
\* pixels, besides the values of the documented example.
MaxHalfPx == 4
MaxRadius == 2

Infinity == [inf |-> TRUE, v |-> RInt(0)]
Finite(q) == [inf |-> FALSE, v |-> q]

\* a / b || Infinity, for a >= 0 and b >= 0: a / 0 is Infinity or NaN, and a
\* quotient of 0 is falsy.
OrInfinity(a, b) ==
  IF b.n = 0 \/ a.n = 0 THEN Infinity ELSE Finite(RDiv(a, b))

MinExt(x, y) ==
  IF x.inf THEN y
  ELSE IF y.inf THEN x
  ELSE Finite(RMin(x.v, y.v))

\* factor = Math.min(w / (tl + tr) || Infinity, h / (tr + br) || Infinity,
\*                   w / (br + bl) || Infinity, h / (bl + tl) || Infinity)
ClampFactorWidthOnly(w, h, r) ==
  MinExt(OrInfinity(w, RAdd(r.tl, r.tr)), OrInfinity(w, RAdd(r.br, r.bl)))

ClampFactor(w, h, r) ==
  MinExt(MinExt(OrInfinity(w, RAdd(r.tl, r.tr)), OrInfinity(h, RAdd(r.tr, r.br))),
         MinExt(OrInfinity(w, RAdd(r.br, r.bl)), OrInfinity(h, RAdd(r.bl, r.tl))))

\* if (factor < 1) { tl *= factor; tr *= factor; br *= factor; bl *= factor; }
\* The same lines stand in getProcessedImage and in elementToCanvasImage.
ClampRadii(w, h, r) ==
  LET factor == ClampFactor(w, h, r)
  IN  IF ~factor.inf /\ RLt(factor.v, RInt(1))
      THEN [tl |-> RMul(r.tl, factor.v), tr |-> RMul(r.tr, factor.v),
            br |-> RMul(r.br, factor.v), bl |-> RMul(r.bl, factor.v)]
      ELSE r

\* The radii of the path of generateCustomShapeSVG(w, h, color, opacity, radii).
generateCustomShapeSVG(w, h, radii) == ClampRadii(w, h, radii)

\* The radii of the mask of getProcessedImage(src, targetW, targetH, radius, ...).
getProcessedImage(targetW, targetH, radius) == ClampRadii(targetW, targetH, radius)

\* Math.ceil of a rational that is not negative.
Ceil(q) == (q.n + q.d - 1) \div q.d
MaxInt(a, b) == IF a >= b THEN a ELSE b

\* The radii of the clip of elementToCanvasImage(node, widthPx, heightPx):
\* width = Math.max(Math.ceil(widthPx), 1), and the same for the height.
elementToCanvasImage(widthPx, heightPx, radii) ==
  LET width == MaxInt(Ceil(widthPx), 1)
      height == MaxInt(Ceil(heightPx), 1)
  IN  ClampRadii(RInt(width), RInt(height), radii)

VARIABLES
  radiusIn,         \* widthPx, heightPx and the four computed corner radii
  radiusOut         \* per function: whether it ran, and the radii it used

radiusVars == <<radiusIn, radiusOut>>

NoRadii == [tl |-> RInt(0), tr |-> RInt(0), br |-> RInt(0), bl |-> RInt(0)]
RadiusFunctions == {"generateCustomShapeSVG", "getProcessedImage", "elementToCanvasImage"}
NoRadiusOut == [f \in RadiusFunctions |-> [ran |-> FALSE, radii |-> NoRadii]]

ExampleW == RInt(100)
ExampleH == RInt(40)
ExampleR == RInt(60)

DimChoices == {Rat(k, 2) : k \in 1..MaxHalfPx} \cup {ExampleW, ExampleH}
RadiusChoices == {RInt(k) : k \in 0..MaxRadius} \cup {ExampleR}

IdleRadius ==
  /\ radiusIn = [w |-> RInt(0), h |-> RInt(0), radii |-> NoRadii]
  /\ radiusOut = NoRadiusOut

\* widthPx = node.offsetWidth || rect.width: a whole number of pixels, or,
\* where offsetWidth is 0 or undefined, the fractional rect.width (at least
\* 0.5, narrower elements are pruned); the same for heightPx.
InitRadius ==
  /\ radiusIn \in [w : DimChoices, h : DimChoices,
                   radii : [tl : RadiusChoices, tr : RadiusChoices,
                            br : RadiusChoices, bl : RadiusChoices]]
  /\ radiusOut = NoRadiusOut

RunCustomShape ==
  /\ ~radiusOut["generateCustomShapeSVG"].ran
  /\ radiusOut' = [radiusOut EXCEPT !["generateCustomShapeSVG"] =
       [ran |-> TRUE, radii |-> generateCustomShapeSVG(radiusIn.w, radiusIn.h, radiusIn.radii)]]
  /\ UNCHANGED radiusIn

RunProcessedImage ==
  /\ ~radiusOut["getProcessedImage"].ran
  /\ radiusOut' = [radiusOut EXCEPT !["getProcessedImage"] =
       [ran |-> TRUE, radii |-> getProcessedImage(radiusIn.w, radiusIn.h, radiusIn.radii)]]
  /\ UNCHANGED radiusIn

RunCanvasImage ==
  /\ ~radiusOut["elementToCanvasImage"].ran
  /\ radiusOut' = [radiusOut EXCEPT !["elementToCanvasImage"] =
       [ran |-> TRUE, radii |-> elementToCanvasImage(radiusIn.w, radiusIn.h, radiusIn.radii)]]
  /\ UNCHANGED radiusIn

NextRadius == RunCustomShape \/ RunProcessedImage \/ RunCanvasImage

\* ------------------------------------------------------------------------
\* Shadow conversion (style.js)
\* ------------------------------------------------------------------------
\* Largest horizontal or vertical shadow offset in pixels.
MaxOffset == 10

\* A real number that is not negative, held exactly as its square.
SqrtOf(sq) == [sq |-> sq]
\* Math.sqrt(x * x + y * y)
Hypot(x, y) == SqrtOf(RInt(x * x + y * y))
\* r * q for a rational q that is not negative
SqrtTimes(r, q) == SqrtOf(RMul(r.sq, RMul(q, q)))

\* An angle in degrees: the exact value lo when lo = hi, otherwise some
\* value strictly between lo and hi. The arc tangent of a ratio of
\* integers is a whole multiple of 45 degrees or lies strictly between two.
Exactly(d) == [lo |-> d, hi |-> d]
Between(lo, hi) == [lo |-> lo, hi |-> hi]

\* Math.atan2(y, x) * (180 / Math.PI): in (-180, 180], the sign of y.
Atan2Degrees(y, x) ==
  LET a == Abs(x)
      b == Abs(y)
      first == IF b = 0 THEN Exactly(0)
               ELSE IF a = 0 THEN Exactly(90)
               ELSE IF b < a THEN Between(0, 45)
               ELSE IF b = a THEN Exactly(45)
               ELSE Between(45, 90)
      upper == IF x < 0 THEN [lo |-> 180 - first.hi, hi |-> 180 - first.lo] ELSE first
  IN  IF y < 0 THEN [lo |-> -upper.hi, hi |-> -upper.lo] ELSE upper

\* angle < 0
AngleNegative(angle) ==
  angle.hi < 0 \/ (angle.lo < angle.hi /\ angle.hi <= 0)

NormalizeAngleSkipped(angle) == angle

\* if (angle < 0) angle += 360;
NormalizeAngle(angle) ==
  IF AngleNegative(angle)
  THEN [lo |-> angle.lo + 360, hi |-> angle.hi + 360]
  ELSE angle

ShadowColor == CssColor(0, 0, 0, 50)
\* One layer of the computed box-shadow; `match` says whether the layer has
\* the form color, x, y, blur that the regular expression accepts.
ShadowLayer(color, x, y, blur) ==
  [color |-> color, x |-> x, y |-> y, blur |-> blur, match |-> TRUE]
TransparentLayer == ShadowLayer(CssTransparent, 0, 0, 0)
\* 'rgba(255, 0, 0, 0) 0px 4px 8px': fully transparent, but not black.
TransparentRedLayer == ShadowLayer(CssColor(255, 0, 0, 0), 0, 4, 8)
\* A layer the regular expression does not accept (e.g. '1e-07px').
UnmatchedLayer == [ShadowLayer(ShadowColor, 0, 0, 0) EXCEPT !.match = FALSE]
\* 'rgba(0, 0, 0, 0.5) 2px 2px 8px'
SecondLayer == ShadowLayer(ShadowColor, 2, 2, 8)
NoShadow == [type |-> "null", angle |-> Exactly(0), blur |-> RInt(0),
             offset |-> SqrtOf(RInt(0)), color |-> NullHex, opacity |-> RInt(0)]
BlackHex == <<"0", "0", "0", "0", "0", "0">>

\* getVisibleShadow(shadowStr, scale): shadowStr is the list of layers of a
\* computed box-shadow ('none' is the empty list); a layer that starts with
\* 'rgba(0, 0, 0, 0)' is skipped, as is one the regular expression does not
\* match, and the first other layer is converted.
RECURSIVE getVisibleShadow(_, _)
getVisibleShadow(shadowStr, scale) ==
  IF shadowStr = <<>> THEN NoShadow
  ELSE LET s == Head(shadowStr)
       IN  IF s.color = CssTransparent THEN getVisibleShadow(Tail(shadowStr), scale)
           ELSE IF ~s.match THEN getVisibleShadow(Tail(shadowStr), scale)
           ELSE LET dist == Hypot(s.x, s.y)
                    angle == NormalizeAngle(Atan2Degrees(s.y, s.x))
                    colorObj == parseColor(s.color)
                IN  [type |-> "outer",
                     angle |-> angle,
                     blur |-> RMul(RInt(s.blur), RMul(Rat(3, 4), scale)),
                     offset |-> SqrtTimes(dist, RMul(Rat(3, 4), scale)),
                     color |-> IF colorObj.hex = NullHex THEN BlackHex ELSE colorObj.hex,
                     opacity |-> colorObj.opacity]

VARIABLES
  shadowPc,         \* "start", "done"
  shadowStr,        \* the layers of the computed box-shadow
  shadowScale,      \* config.scale
  shadowResult      \* what getVisibleShadow returned

shadowVars == <<shadowPc, shadowStr, shadowScale, shadowResult>>

Offsets == -MaxOffset..MaxOffset
Blurs == {0, 8}
ShadowScales == {Rat(1, 2), RInt(1), RInt(2)}
VisibleLayers ==
  {ShadowLayer(ShadowColor, x, y, blur) : x \in Offsets, y \in Offsets, blur \in Blurs}
LeadingLayers == {TransparentLayer, TransparentRedLayer, UnmatchedLayer}
ShadowStrings ==
  {<<>>}
    \cup {<<l>> : l \in VisibleLayers \cup LeadingLayers}
    \cup {<<k, l>> : k \in LeadingLayers, l \in VisibleLayers \cup LeadingLayers}
    \cup {<<l, SecondLayer>> : l \in VisibleLayers}

IdleShadow ==
  /\ shadowPc = "idle"
  /\ shadowStr = <<>>
  /\ shadowScale = RInt(1)
  /\ shadowResult = NoShadow

InitShadow ==
  /\ shadowPc = "start"
  /\ shadowStr \in ShadowStrings
  /\ shadowScale \in ShadowScales
  /\ shadowResult = NoShadow

ConvertShadow ==
  /\ shadowPc = "start"
  /\ shadowResult' = getVisibleShadow(shadowStr, shadowScale)
  /\ shadowPc' = "done"
  /\ UNCHANGED <<shadowStr, shadowScale>>

NextShadow == ConvertShadow

\* ------------------------------------------------------------------------
\* Linear gradients (svg.js)
\* ------------------------------------------------------------------------
\* Largest number of color stops of a gradient.
MaxStops == 3

\* The first comma-separated part of linear-gradient(...): a 'to <dir>'
\* keyword, an angle <val><unit>, or already the first color stop.
ToDirection(dir) == [kind |-> "to", dir |-> dir, val |-> RInt(0), unit |-> ""]
AngleDirection(val, unit) == [kind |-> "angle", dir |-> "", val |-> val, unit |-> unit]
NoDirection == [kind |-> "none", dir |-> "", val |-> RInt(0), unit |-> ""]

\* A gradient vector in tenths of a percent of the bounding box.
Vector(x1, y1, x2, y2) == [x1 |-> x1, y1 |-> y1, x2 |-> x2, y2 |-> y2]
\* let x1 = '0%', y1 = '0%', x2 = '0%', y2 = '100%';
DefaultVector == Vector(0, 0, 0, 1000)

KnownDirs ==
  {"top", "bottom", "left", "right", "top right", "top left", "bottom right", "bottom left"}

\* { x1, y1, x2, y2, ...DIRS[dir] }: the entry of DIRS overrides the defaults
\* in the fields it names, and only in those.
DirsOverride(dir) ==
  CASE dir = "top" -> [DefaultVector EXCEPT !.y1 = 1000, !.y2 = 0]
    [] dir = "bottom" -> [DefaultVector EXCEPT !.y1 = 0, !.y2 = 1000]
    [] dir = "left" -> [DefaultVector EXCEPT !.x1 = 1000, !.x2 = 0]
    [] dir = "right" -> [DefaultVector EXCEPT !.x2 = 1000]
    [] dir = "top right" -> Vector(0, 1000, 1000, 0)
    [] dir = "top left" -> Vector(1000, 1000, 0, 0)
    [] dir = "bottom right" -> [DefaultVector EXCEPT !.x2 = 1000, !.y2 = 1000]
    [] dir = "bottom left" -> [DefaultVector EXCEPT !.x1 = 1000, !.y2 = 1000]
    [] OTHER -> DefaultVector

\* Math.PI, to seven digits.
PiNum == 355
PiDen == 113

\* 180 / Math.PI, in thousandths of a degree.
MilliDegPerRad == 57296

\* Math.round of a rational that is not negative.
RoundRat(q) == (2 * q.n + q.d) \div (2 * q.d)
\* Math.floor of any rational.
FloorRat(q) == q.n \div q.d

\* const deg = first.includes('rad') ? val * (180 / Math.PI) : val;
\* in thousandths of a degree. 'grad' includes 'rad'; 'turn' does not.
DegMilli(val, unit) ==
  IF unit \in {"rad", "grad"}
  THEN FloorRat(RAdd(RMul(val, RInt(MilliDegPerRad)), Rat(1, 2)))
  ELSE FloorRat(RAdd(RMul(val, RInt(1000)), Rat(1, 2)))

\* 50 * sin and 50 * cos of an angle of m thousandths of a degree, in units
\* of 0.0001, for an angle within one degree of a multiple of 90 degrees
\* (sin d = d and cos d = 1 - d * d / 2 to that precision).
SinCos50(m) ==
  LET q == ((m + 45000) \div 90000)
      d == m - q * 90000
      k == q % 4
      dr6 == (d * PiNum * 1000) \div (PiDen * 180)
      S == (d * PiNum * 500) \div (PiDen * 180)
      C == 500000 - ((dr6 * dr6) \div 4000000)
  IN  CASE k = 0 -> [sin |-> S, cos |-> C]
        [] k = 1 -> [sin |-> C, cos |-> -S]
        [] k = 2 -> [sin |-> -S, cos |-> -C]
        [] OTHER -> [sin |-> -C, cos |-> S]

\* (v).toFixed(1) for v given in units of 0.0001, in tenths.
ToFixed1(v) == IF v >= 0 THEN (v + 500) \div 1000 ELSE -((-v + 500) \div 1000)

\* cssRad = ((deg - 90) * Math.PI) / 180; x1 = 50 - sin(cssRad) * 50, ...
AngleVector(val, unit) ==
  LET t == SinCos50(DegMilli(val, unit) - 90000)
  IN  Vector(ToFixed1(500000 - t.sin), ToFixed1(500000 + t.cos),
             ToFixed1(500000 + t.sin), ToFixed1(500000 - t.cos))

GradientVector(first) ==
  IF first.kind = "to" THEN DirsOverride(first.dir)
  ELSE IF first.kind = "angle" THEN AngleVector(first.val, first.unit)
  ELSE DefaultVector

\* <stop offset stop-color stop-opacity/> for stop idx (from 0) of n stops
\* without a position: offset = Math.round((idx / (n - 1)) * 100) + '%'.
GradientStops(stops) ==
  [i \in 1..Len(stops) |->
     [offset |-> RoundRat(Rat((i - 1) * 100, Len(stops) - 1)),
      color |-> HexOf(stops[i].r, stops[i].g, stops[i].b),
      opacity |-> IF stops[i].a = 100 THEN RInt(1) ELSE Rat(stops[i].a, 100)]]

\* generateGradientSVG(w, h, bgString, radius, border): the attributes of
\* the <linearGradient> element of the data URL.
generateGradientSVG(first, stops) ==
  [vector |-> GradientVector(first), stops |-> GradientStops(stops)]

VARIABLES
  gradPc,           \* "start", "done"
  gradIn,           \* the parts of the computed linear-gradient(...)
  gradOut           \* the <linearGradient> that was generated

gradVars == <<gradPc, gradIn, gradOut>>

NoGradient == [vector |-> DefaultVector, stops |-> <<>>]
StopColors == {CssColor(255, 0, 0, 100), CssColor(0, 0, 255, 50)}
StopLists == UNION {[1..n -> StopColors] : n \in 2..MaxStops}
Directions ==
  {NoDirection}
    \cup {ToDirection(d) : d \in KnownDirs}
    \cup {AngleDirection(RInt(v), "deg") : v \in {0, 90, 180, 270}}
    \cup {AngleDirection(Rat(v, 4), "turn") : v \in 0..3}
    \cup {AngleDirection(Rat(v, 10000), "rad") : v \in {0, 15708, 31416, 47124}}

IdleGrad ==
  /\ gradPc = "idle"
  /\ gradIn = [first |-> NoDirection, stops |-> <<>>]
  /\ gradOut = NoGradient

InitGrad ==
  /\ gradPc = "start"
  /\ gradIn \in [first : Directions, stops : StopLists]
  /\ gradOut = NoGradient

GenerateGradient ==
  /\ gradPc = "start"
  /\ gradOut' = generateGradientSVG(gradIn.first, gradIn.stops)
  /\ gradPc' = "done"
  /\ UNCHANGED gradIn

NextGrad == GenerateGradient

\* ------------------------------------------------------------------------
\* Color parsing for any CSS color string (color.js)
\* ------------------------------------------------------------------------
\* A color string: the keyword 'transparent' ("keyword"), the form rgb(...)
\* or rgba(...) of a computed style ("computed"), a '#rrggbbaa' string
\* ("hex"), or a form that the canvas does not serialize as '#...' or
\* 'rgb...', such as color(display-p3 ...) ("wide").
ColorString(form, c) == [form |-> form, c |-> c]

HexDigitLower == <<"0", "1", "2", "3", "4", "5", "6", "7", "8", "9", "a", "b", "c", "d", "e", "f">>
HexByteLower(v) == <<HexDigitLower[(v \div 16) + 1], HexDigitLower[(v % 16) + 1]>>

\* String.prototype.toUpperCase on hexadecimal digits.
ToUpperCase(digits) ==
  [i \in 1..Len(digits) |->
     IF \E k \in 11..16 : HexDigitLower[k] = digits[i]
     THEN HexDigit[CHOOSE k \in 11..16 : HexDigitLower[k] = digits[i]]
     ELSE digits[i]]

\* ctx.fillStyle = str; computed = ctx.fillStyle: '#rrggbb' in lower case
\* for an opaque color, 'rgba(r, g, b, a)' for any other.
CanvasFillStyle(str) ==
  IF str.form = "wide" THEN [prefix |-> "color", digits |-> <<>>, c |-> str.c]
  ELSE IF str.c.a = 100
       THEN [prefix |-> "#", c |-> str.c,
             digits |-> HexByteLower(str.c.r) \o HexByteLower(str.c.g) \o HexByteLower(str.c.b)]
       ELSE [prefix |-> "rgb", digits |-> <<>>, c |-> str.c]

\* parseColor(str) for any color string.
parseColorString(str) ==
  IF str.form = "keyword" \/ (str.form = "computed" /\ str.c = CssTransparent)
  THEN [hex |-> NullHex, opacity |-> RInt(0)]
  ELSE LET computed == CanvasFillStyle(str)
       IN  CASE computed.prefix = "#" ->
                  [hex |-> ToUpperCase(computed.digits), opacity |-> RInt(1)]
             [] computed.prefix = "rgb" ->
                  [hex |-> HexOf(computed.c.r, computed.c.g, computed.c.b),
                   opacity |-> Rat(computed.c.a, 100)]
             [] OTHER ->
                  \* pixel readback: data[3] = round(alpha * 255)
                  LET alpha == RoundRat(Rat(computed.c.a * 255, 100))
                  IN  IF alpha = 0 THEN [hex |-> NullHex, opacity |-> RInt(0)]
                      ELSE [hex |-> HexOf(computed.c.r, computed.c.g, computed.c.b),
                            opacity |-> Rat(alpha, 255)]

VARIABLES
  colorPc,          \* "start", "done"
  colorStr,         \* the argument of parseColor
  colorObj          \* its result

colorVars == <<colorPc, colorStr, colorObj>>

Channels == {0, 171, 255}
Alphas == {0, 50, 100}
ColorStrings ==
  {ColorString("keyword", CssTransparent)}
    \cup {ColorString(f, CssColor(r, g, b, a)) :
            f \in {"computed", "hex", "wide"}, r \in Channels, g \in Channels,
            b \in Channels, a \in Alphas}

IdleColor ==
  /\ colorPc = "idle"
  /\ colorStr = ColorString("keyword", CssTransparent)
  /\ colorObj = [hex |-> NullHex, opacity |-> RInt(0)]

InitColor ==
  /\ colorPc = "start"
  /\ colorStr \in ColorStrings
  /\ colorObj = [hex |-> NullHex, opacity |-> RInt(0)]

ParseColor ==
  /\ colorPc = "start"
  /\ colorObj' = parseColorString(colorStr)
  /\ colorPc' = "done"
  /\ UNCHANGED colorStr

NextColor == ParseColor

\* ------------------------------------------------------------------------
\* Native lists (list-renderer.js, element-renderer.js LIST branch)
\* ------------------------------------------------------------------------
\* Largest number of LI children of a list and of text runs of one LI.
MaxItems == 3
MaxRuns == 2

\* let bullet = { type: 'bullet' }; ... : 'number' for an OL or the type
\* decimal, false for the type none, a character code otherwise.
BulletConfig(tagName, listStyleType) ==
  IF tagName = "OL" \/ listStyleType = "decimal" THEN "number"
  ELSE IF listStyleType = "none" THEN "false"
  ELSE "code"

TextRun(item, idx) ==
  [text |-> "text", bullet |-> "false", breakLine |-> FALSE, item |-> item, idx |-> idx]
\* The zero-width-space run that carries the bullet of an item.
BulletRun(item, bullet) ==
  [text |-> "u200B", bullet |-> bullet, breakLine |-> FALSE, item |-> item, idx |-> 0]

\* collectLiDirectParts(li, liStyle, scale): one run per text of the item.
collectLiDirectParts(item, runs) == [j \in 1..runs |-> TextRun(item, j)]

\* The runs that one LI adds to `out`: none when it has no text; otherwise
\* its runs, behind a bullet run unless bullet is false, the last of them
\* with breakLine = true.
LiParts(tagName, item, li) ==
  LET bullet == BulletConfig(tagName, li.listStyleType)
      direct == collectLiDirectParts(item, li.runs)
      parts == IF bullet # "false" THEN <<BulletRun(item, bullet)>> \o direct ELSE direct
  IN  IF Len(direct) = 0 THEN <<>>
      ELSE [parts EXCEPT ![Len(parts)].breakLine = TRUE]

\* processListLevel(listNode, 0, out, config, globalOptions) for a list
\* without nested lists.
RECURSIVE processListLevel(_, _, _)
processListLevel(tagName, lis, from) ==
  IF from > Len(lis) THEN <<>>
  ELSE LiParts(tagName, from, lis[from]) \o processListLevel(tagName, lis, from + 1)

StripTrailingBreakSkipped(listItems) == listItems

\* if (last.options?.breakLine) delete last.options.breakLine;
StripTrailingBreak(listItems) ==
  [listItems EXCEPT ![Len(listItems)].breakLine = FALSE]

\* The LIST branch of prepareRenderItem: the textParts of the text item, or
\* no item when the list yields no run (the node then takes the generic path).
ListTextParts(list) ==
  LET listItems == processListLevel(list.tagName, list.lis, 1)
  IN  IF Len(listItems) > 0
      THEN [fastPath |-> TRUE, textParts |-> StripTrailingBreak(listItems)]
      ELSE [fastPath |-> FALSE, textParts |-> <<>>]

VARIABLES
  listPc,           \* "start", "done"
  listNode,         \* the UL or OL: its tag and its LI children
  listItem          \* the result of the LIST branch

listVars == <<listPc, listNode, listItem>>

ListStyleTypes == {"none", "disc", "decimal"}
LiChoices == [runs : 0..MaxRuns, listStyleType : ListStyleTypes]
ListNodes ==
  [tagName : {"UL", "OL"}, lis : UNION {[1..n -> LiChoices] : n \in 1..MaxItems}]
NoListItem == [fastPath |-> FALSE, textParts |-> <<>>]

IdleList ==
  /\ listPc = "idle"
  /\ listNode = [tagName |-> "UL", lis |-> <<>>]
  /\ listItem = NoListItem

InitList ==
  /\ listPc = "start"
  /\ listNode \in ListNodes
  /\ listItem = NoListItem

RenderList ==
  /\ listPc = "start"
  /\ listItem' = ListTextParts(listNode)
  /\ listPc' = "done"
  /\ UNCHANGED listNode

NextList == RenderList

\* ------------------------------------------------------------------------
\* Table cell background (table.js)
\* ------------------------------------------------------------------------
\* An element of the ancestor chain of a cell: its tag and its computed
\* background color.
TableElement(tagName, background) == [tagName |-> tagName, backgroundColor |-> background]

\* aBg.hex && aBg.opacity > 0
HasFill(bg) == bg.hex # NullHex /\ RLt(RInt(0), bg.opacity)

\* The while loop over cell.parentElement, ancestor.parentElement, ...: it
\* ends without a color at the first TABLE, BODY or HTML element.
RECURSIVE AncestorBackground(_, _)
AncestorBackground(ancestors, bg) ==
  IF ancestors = <<>> THEN bg
  ELSE IF Head(ancestors).tagName \in {"TABLE", "BODY", "HTML"} THEN bg
  ELSE LET aBg == parseColor(Head(ancestors).backgroundColor)
       IN  IF HasFill(aBg) THEN aBg
           ELSE AncestorBackground(Tail(ancestors), bg)

NoFill == NullHex

\* The fill of one cell in extractTableData: the hex color, or null.
CellFill(cellBackground, ancestors) ==
  LET own == parseColor(cellBackground)
      bg == IF own.hex = NullHex \/ own.opacity = RInt(0)
            THEN AncestorBackground(ancestors, own)
            ELSE own
  IN  IF HasFill(bg) THEN bg.hex ELSE NoFill

VARIABLES
  tablePc,          \* "start", "done"
  tableCell,        \* the background of a cell and the chain of its ancestors
  cellFill          \* options.fill.color of the cell, or null

tableVars == <<tablePc, tableCell, cellFill>>

TableBackgrounds ==
  {CssTransparent, CssColor(255, 0, 0, 100), CssColor(0, 0, 255, 50), CssColor(0, 255, 0, 0)}
\* tr in thead/tbody/tfoot in table, or tr directly in table.
AncestorChains ==
  {<<TableElement("TR", r), TableElement(sec, b), TableElement("TABLE", t), TableElement("BODY", CssTransparent)>> :
      r \in TableBackgrounds, sec \in {"THEAD", "TBODY", "TFOOT"},
      b \in TableBackgrounds, t \in TableBackgrounds}
    \cup {<<TableElement("TR", r), TableElement("TABLE", t), TableElement("BODY", CssTransparent)>> :
      r \in TableBackgrounds, t \in TableBackgrounds}

IdleTable ==
  /\ tablePc = "idle"
  /\ tableCell = [backgroundColor |-> CssTransparent, ancestors |-> <<>>]
  /\ cellFill = NoFill

InitTable ==
  /\ tablePc = "start"
  /\ tableCell \in [backgroundColor : TableBackgrounds, ancestors : AncestorChains]
  /\ cellFill = NoFill

ExtractCell ==
  /\ tablePc = "start"
  /\ cellFill' = CellFill(tableCell.backgroundColor, tableCell.ancestors)
  /\ tablePc' = "done"
  /\ UNCHANGED tableCell

NextTable == ExtractCell

\* ------------------------------------------------------------------------
\* Font embedding (index.js, exportToPptx)
\* ------------------------------------------------------------------------
FontNames == {"Inter", "Roboto", "Lato"}
\* options.autoEmbedFonts as the caller passes it.
AutoEmbedValues == {"undefined", "true", "false"}
\* JavaScript truthiness of the option.
Truthy(v) == v = "true"

RECURSIVE AppendMissing(_, _)
\* for (const autoFont of detectedFonts)
\*   if (!explicitNames.has(autoFont.name)) fontsToEmbed.push(autoFont);
AppendMissing(fonts, detected) ==
  IF detected = <<>> THEN fonts
  ELSE IF \E i \in 1..Len(fonts) : fonts[i] = Head(detected)
       THEN AppendMissing(fonts, Tail(detected))
       ELSE AppendMissing(Append(fonts, Head(detected)), Tail(detected))

VARIABLES
  fontPc,           \* "start", "detected", "done"
  fontOptions,      \* options.autoEmbedFonts and options.fonts
  usedFonts,        \* what getAutoDetectedFonts would return for the slides
  detectionRan,     \* whether getUsedFontFamilies / getAutoDetectedFonts ran
  fontsToEmbed,     \* the embed list
  embedded          \* the fonts added to the file

fontVars == <<fontPc, fontOptions, usedFonts, detectionRan, fontsToEmbed, embedded>>

FontLists == {<<>>, <<"Inter">>, <<"Roboto">>, <<"Inter", "Roboto">>, <<"Lato", "Inter">>}

IdleFont ==
  /\ fontPc = "idle"
  /\ fontOptions = [autoEmbedFonts |-> "undefined", fonts |-> <<>>]
  /\ usedFonts = <<>>
  /\ detectionRan = FALSE
  /\ fontsToEmbed = <<>>
  /\ embedded = {}

InitFont ==
  /\ fontPc = "start"
  /\ fontOptions \in [autoEmbedFonts : AutoEmbedValues, fonts : FontLists]
  /\ usedFonts \in FontLists
  /\ detectionRan = FALSE
  /\ fontsToEmbed = <<>>
  /\ embedded = {}

\* let fontsToEmbed = options.fonts || []; if (options.autoEmbedFonts) {...}
DetectFonts ==
  /\ fontPc = "start"
  /\ IF Truthy(fontOptions.autoEmbedFonts)
     THEN /\ detectionRan' = TRUE
          /\ fontsToEmbed' = AppendMissing(fontOptions.fonts, usedFonts)
     ELSE /\ detectionRan' = FALSE
          /\ fontsToEmbed' = fontOptions.fonts
  /\ fontPc' = "detected"
  /\ UNCHANGED <<fontOptions, usedFonts, embedded>>

\* for (const fontCfg of fontsToEmbed) { try { fetch ... addFont } catch {} }
\* each font is added unless its download or conversion fails.
EmbedFonts ==
  /\ fontPc = "detected"
  /\ \E ok \in SUBSET {fontsToEmbed[i] : i \in 1..Len(fontsToEmbed)} : embedded' = ok
  /\ fontPc' = "done"
  /\ UNCHANGED <<fontOptions, usedFonts, detectionRan, fontsToEmbed>>

NextFont == DetectFonts \/ EmbedFonts

\* ------------------------------------------------------------------------
\* SVG node converters and the SVG job (svg.js, element-renderer.js)
\* ------------------------------------------------------------------------
\* Largest number of child elements of an inline <svg>.
MaxSvgChildren == 2

\* The markup of an element as a string of character codes. One code stands
\* for each piece of markup: '<svg', ' xmlns="http://www.w3.org/2000/svg"',
\* ' width="' and ' height="' (each followed by the code of its value),
\* '<rect/>' for a child element; a text character stands for itself.
MarkupCode == [svg |-> 1, xmlns |-> 2, width |-> 3, height |-> 4, child |-> 5]

\* unescape(encodeURIComponent(xml)): the UTF-8 bytes of the string.
RECURSIVE Utf8(_)
Utf8(str) ==
  IF str = <<>> THEN <<>>
  ELSE LET c == Head(str)
       IN  (IF c < 128 THEN <<c>> ELSE <<192 + (c \div 64), 128 + (c % 64)>>) \o Utf8(Tail(str))

\* btoa: three bytes to four sextets; 64 stands for the padding '='.
RECURSIVE btoa(_)
btoa(bytes) ==
  IF bytes = <<>> THEN <<>>
  ELSE IF Len(bytes) = 1
       THEN <<bytes[1] \div 4, (bytes[1] % 4) * 16, 64, 64>>
  ELSE IF Len(bytes) = 2
       THEN <<bytes[1] \div 4, (bytes[1] % 4) * 16 + (bytes[2] \div 16), (bytes[2] % 16) * 4, 64>>
  ELSE <<bytes[1] \div 4, (bytes[1] % 4) * 16 + (bytes[2] \div 16),
         (bytes[2] % 16) * 4 + (bytes[3] \div 64), bytes[3] % 64>>
         \o btoa(SubSeq(bytes, 4, Len(bytes)))

\* new XMLSerializer().serializeToString(clone) after the attributes were
\* set: the clone keeps the children and the text of the node.
SerializedClone(node, width, height) ==
  <<MarkupCode.svg, MarkupCode.xmlns, MarkupCode.width, width, MarkupCode.height, height>>
    \o [i \in 1..node.children |-> MarkupCode.child]
    \o node.text

NoValue == [kind |-> "null", prefix |-> "", payload |-> <<>>]
Fulfilled(value) == [state |-> "fulfilled", value |-> value]
Rejected == [state |-> "rejected", value |-> NoValue]
Pending == [state |-> "pending", value |-> NoValue]

\* svgToSvg without its try / catch.
svgToSvgUncaught(node) ==
  IF node.throws THEN Rejected
  ELSE Fulfilled([kind |-> "string", prefix |-> "data:image/svg+xml;base64,",
                  payload |-> btoa(Utf8(SerializedClone(node, node.width, node.height)))])

\* svgToSvg(node): the promise it returns. An exception of cloneNode,
\* inlineSvgStyles or the serializer is caught and resolves null.
svgToSvg(node) ==
  IF node.throws THEN Fulfilled(NoValue)
  ELSE Fulfilled([kind |-> "string", prefix |-> "data:image/svg+xml;base64,",
                  payload |-> btoa(Utf8(SerializedClone(node, node.width, node.height)))])

\* svgToPng(node) up to img.src = ...: an exception in the executor rejects
\* the promise; otherwise it stays pending until the image loads or fails.
svgToPng(node) == IF node.throws THEN Rejected ELSE Pending

\* canvas.toDataURL('image/png')
PngValue == [kind |-> "string", prefix |-> "data:image/png;base64,", payload |-> <<>>]

VARIABLES
  svgPc,            \* "start", "awaiting", "done", "rejected"
  svgNode,          \* the inline <svg>
  svgAsVector,      \* globalOptions.svgAsVector
  svgConverter,     \* the converter the job chose
  svgPromise,       \* the promise of the converter
  svgItem           \* the queued image item: data and skip

svgVars == <<svgPc, svgNode, svgAsVector, svgConverter, svgPromise, svgItem>>

\* An <svg> that passed the size check: width and height are measured.
SvgNodes ==
  [width : {1, 100}, height : {1, 100}, children : 0..MaxSvgChildren,
   text : {<<>>, <<65>>, <<233>>}, throws : BOOLEAN]
NoSvgNode == [width |-> 1, height |-> 1, children |-> 0, text |-> <<>>, throws |-> FALSE]
NewSvgItem == [data |-> NoValue, skip |-> FALSE]

IdleSvg ==
  /\ svgPc = "idle"
  /\ svgNode = NoSvgNode
  /\ svgAsVector = "undefined"
  /\ svgConverter = "none"
  /\ svgPromise = Pending
  /\ svgItem = NewSvgItem

InitSvg ==
  /\ svgPc = "start"
  /\ svgNode \in SvgNodes
  /\ svgAsVector \in {"undefined", "true", "false"}
  /\ svgConverter = "none"
  /\ svgPromise = Pending
  /\ svgItem = NewSvgItem

\* const converter = globalOptions.svgAsVector ? svgToSvg : svgToPng;
\* const processed = await converter(node);
StartSvgJob ==
  /\ svgPc = "start"
  /\ IF Truthy(svgAsVector)
     THEN svgConverter' = "svgToSvg" /\ svgPromise' = svgToSvg(svgNode)
     ELSE svgConverter' = "svgToPng" /\ svgPromise' = svgToPng(svgNode)
  /\ svgPc' = "awaiting"
  /\ UNCHANGED <<svgNode, svgAsVector, svgItem>>

\* img.onload
SvgImageLoad ==
  /\ svgPc = "awaiting" /\ svgPromise.state = "pending"
  /\ svgPromise' = Fulfilled(PngValue)
  /\ UNCHANGED <<svgPc, svgNode, svgAsVector, svgConverter, svgItem>>

\* img.onerror
SvgImageError ==
  /\ svgPc = "awaiting" /\ svgPromise.state = "pending"
  /\ svgPromise' = Fulfilled(NoValue)
  /\ UNCHANGED <<svgPc, svgNode, svgAsVector, svgConverter, svgItem>>

\* if (processed) item.options.data = processed; else item.skip = true;
\* a rejected converter promise rejects the job.
ResumeSvgJob ==
  /\ svgPc = "awaiting" /\ svgPromise.state # "pending"
  /\ IF svgPromise.state = "rejected"
     THEN svgPc' = "rejected" /\ UNCHANGED svgItem
     ELSE /\ svgPc' = "done"
          /\ svgItem' = IF svgPromise.value.kind = "string"
                        THEN [svgItem EXCEPT !.data = svgPromise.value]
                        ELSE [svgItem EXCEPT !.skip = TRUE]
  /\ UNCHANGED <<svgNode, svgAsVector, svgConverter, svgPromise>>

NextSvg == StartSvgJob \/ SvgImageLoad \/ SvgImageError \/ ResumeSvgJob

\* ------------------------------------------------------------------------
\* The walk of collect, call by call
\* ------------------------------------------------------------------------
\* One record per call of collect, in call order: the node and the locals
\* order and currentZ of the call. A hidden element returns before currentZ
\* is reassigned, so its call still holds parentZIndex.
VARIABLES
  visits

walkVars == <<visits>>

\* Computed z-index values met by the walk; parseInt keeps the sign.
WalkZChoices == ZChoices \cup {ZInt(-1)}

\* The walk runs no job: one outcome per kind is enough.
WalkKindOutcomes == {ko \in KindOutcomes : ko[2] \in {"none", "data"}}

WalkInfos ==
  { [kind |-> ko[1], outcome |-> ko[2], z |-> zc] :
      ko \in WalkKindOutcomes, zc \in WalkZChoices }

\* The root is an element like any other for getComputedStyle.
RootInfos == { [RootInfo EXCEPT !.z = zc] : zc \in WalkZChoices }

Visit(fr) ==
  LET hiddenNode == nodeInfo[fr.node].kind = "hidden" IN
  [node |-> fr.node,
   order |-> domOrderCounter,
   parentZIndex |-> fr.parentZIndex,
   hidden |-> hiddenNode,
   currentZ |-> IF hiddenNode THEN fr.parentZIndex
                ELSE EffectiveZ(fr.node, fr.parentZIndex)]

IdleWalk == visits = <<>>

\* processSlide up to collect(root, 0).
InitWalk ==
  /\ parent \in ParentMaps
  /\ nodeInfo \in { f \in [Nodes -> WalkInfos \cup RootInfos] :
                      /\ f[Root] \in RootInfos
                      /\ \A n \in Nodes \ {Root} : f[n] \in WalkInfos }
  /\ ResetRun
  /\ second = FALSE
  /\ prevDrawn = <<>>
  /\ prevSettleLog = <<>>
  /\ visits = <<>>

\* One call collect(node, parentZIndex), with its locals recorded.
WalkCollect ==
  /\ Collect
  /\ visits' = Append(visits, Visit(Head(stack)))

NextWalk == WalkCollect

\* ------------------------------------------------------------------------
\* The walk over elements without visual extent
\* ------------------------------------------------------------------------
\* if (rect.width < 0.5 || rect.height < 0.5) return null;
\* A box of no height is common for a wrapper whose children are positioned
\* absolutely; the children keep their own extent.
PruneKindOutcomes ==
  { <<"div", "none">>, <<"hidden", "none">>, <<"zero", "none">>, <<"img", "data">> }

PruneInfos ==
  { [kind |-> ko[1], outcome |-> ko[2], z |-> zc] :
      ko \in PruneKindOutcomes, zc \in ZChoices }

\* processSlide up to collect(root, 0).
InitPrune ==
  /\ parent \in ParentMaps
  /\ nodeInfo \in { f \in [Nodes -> PruneInfos \cup {RootInfo}] :
                      /\ f[Root] = RootInfo
                      /\ \A n \in Nodes \ {Root} : f[n] \in PruneInfos }
  /\ ResetRun
  /\ second = FALSE
  /\ prevDrawn = <<>>
  /\ prevSettleLog = <<>>
  /\ visits = <<>>

NextPrune == WalkCollect

\* ------------------------------------------------------------------------
\* A table with media in its cells
\* ------------------------------------------------------------------------
\* Largest number of elements matched by TABLE_MEDIA_SELECTOR in the table.
MaxMedia == 2

VARIABLES
  mediaPc,       \* "table", "next", "jobs", "sort", "done" ("idle" elsewhere)
  mediaTable,    \* the table met by collect and the node visited after it
  mediaCounter,  \* domOrderCounter
  mediaQueue,    \* renderQueue
  mediaFinal     \* finalQueue

mediaVars == <<mediaPc, mediaTable, mediaCounter, mediaQueue, mediaFinal>>

\* The table and the node visited after it, as nodes of the items.
TableNode == 0
NodeAfter == MaxMedia + 1

\* domOrder + (idx + 1) / (mediaEls.length + 1), idx counted from 0.
MediaOrderNextInteger(domOrder, idx, n) == RInt(domOrder + idx + 1)

MediaOrder(domOrder, idx, n) == RAdd(RInt(domOrder), Rat(idx + 1, n + 1))

MediaItem(type, z, order, n) ==
  [type |-> type, zIndex |-> z, domOrder |-> order, node |-> n,
   data |-> NoData, skip |-> FALSE]

\* mediaEls.forEach((mediaEl, idx) => ...): a hidden element is passed
\* over and keeps its idx; CANVAS, SVG and IMG each return one image item
\* with the z-index of the table.
RECURSIVE MediaItems(_, _, _, _)
MediaItems(mediaEls, idx, domOrder, z) ==
  IF idx >= Len(mediaEls) THEN <<>>
  ELSE (IF mediaEls[idx + 1].hidden THEN <<>>
        ELSE <<MediaItem("image", z, MediaOrder(domOrder, idx, Len(mediaEls)), idx + 1)>>)
       \o MediaItems(mediaEls, idx + 1, domOrder, z)

\* prepareRenderItem on a TABLE: items: [tableItem, ...mediaItems].
TableItems(mediaEls, domOrder, z) ==
  <<MediaItem("table", z, RInt(domOrder), TableNode)>>
    \o MediaItems(mediaEls, 0, domOrder, z)

\* (a, b) => a.zIndex !== b.zIndex ? a.zIndex - b.zIndex : a.domOrder - b.domOrder
\* on fractional domOrder: only the sign matters to sort().
CompareItems(a, b) ==
  IF a.zIndex # b.zIndex THEN a.zIndex - b.zIndex
  ELSE RSub(a.domOrder, b.domOrder).n

RECURSIVE InsertItem(_, _)
InsertItem(s, x) ==
  IF s = <<>> THEN <<x>>
  ELSE IF CompareItems(Head(s), x) > 0 THEN <<x>> \o s
  ELSE <<Head(s)>> \o InsertItem(Tail(s), x)

RECURSIVE SortItems(_)
SortItems(s) ==
  IF s = <<>> THEN <<>>
  ELSE InsertItem(SortItems(SubSeq(s, 1, Len(s) - 1)), s[Len(s)])

MediaElements ==
  { [kind |-> k, hidden |-> h, outcome |-> o] :
      k \in {"img", "svg", "canvas"}, h \in BOOLEAN, o \in {"data", "null"} }

MediaLists == UNION { [1..n -> MediaElements] : n \in 0..MaxMedia }

NoMediaTable == [before |-> 0, z |-> 0, mediaEls |-> <<>>, zAfter |-> 0]

IdleMedia ==
  /\ mediaPc = "idle"
  /\ mediaTable = NoMediaTable
  /\ mediaCounter = 0
  /\ mediaQueue = <<>>
  /\ mediaFinal = <<>>

\* collect has visited `before` nodes and is about to visit the table.
InitMedia ==
  /\ mediaPc = "table"
  /\ mediaTable \in { [before |-> b, z |-> z, mediaEls |-> m, zAfter |-> za] :
                        b \in 0..1, z \in {0, 5}, m \in MediaLists, za \in {0, 5} }
  /\ mediaCounter = mediaTable.before
  /\ mediaQueue = <<>>
  /\ mediaFinal = <<>>

\* collect(table, parentZIndex): stopRecursion, no cell is visited.
CollectTable ==
  /\ mediaPc = "table"
  /\ mediaCounter' = mediaCounter + 1
  /\ mediaQueue' = mediaQueue \o TableItems(mediaTable.mediaEls, mediaCounter, mediaTable.z)
  /\ mediaPc' = "next"
  /\ UNCHANGED <<mediaTable, mediaFinal>>

\* collect(node after the table): an element with a solid background.
CollectAfterTable ==
  /\ mediaPc = "next"
  /\ mediaCounter' = mediaCounter + 1
  /\ mediaQueue' = Append(mediaQueue,
                          MediaItem("shape", mediaTable.zAfter, RInt(mediaCounter), NodeAfter))
  /\ mediaPc' = "jobs"
  /\ UNCHANGED <<mediaTable, mediaFinal>>

\* await Promise.all(asyncTasks...): each media job fills its item or marks
\* it skipped.
RunMediaJobs ==
  /\ mediaPc = "jobs"
  /\ mediaQueue' =
       [k \in 1..Len(mediaQueue) |->
          LET it == mediaQueue[k] IN
          IF it.type # "image" THEN it
          ELSE IF mediaTable.mediaEls[it.node].outcome = "data"
               THEN [it EXCEPT !.data = JobData(it.node)]
               ELSE [it EXCEPT !.skip = TRUE]]
  /\ mediaPc' = "sort"
  /\ UNCHANGED <<mediaTable, mediaCounter, mediaFinal>>

\* renderQueue.filter(...).sort(...)
SortMedia ==
  /\ mediaPc = "sort"
  /\ mediaFinal' = SortItems(SelectSeq(mediaQueue, Keep))
  /\ mediaPc' = "done"
  /\ UNCHANGED <<mediaTable, mediaCounter, mediaQueue>>

NextMedia == CollectTable \/ CollectAfterTable \/ RunMediaJobs \/ SortMedia

\* ------------------------------------------------------------------------
\* prepareRenderItem on a plain element and on its bare text child
\* ------------------------------------------------------------------------
\* One element that is no table, list, canvas, svg, img or icon, described
\* by what prepareRenderItem reads of it:
\*   kind      "root" (node === config.root), "zero" (bounding box under
\*             0.5px) or "box"
\*   content   "empty"; "text" (one non-blank bare text node); "span" (a bare
\*             text node and an inline span with a background of its own);
\*             "mixed" (a bare text node and a block child)
\*   fill      parseColor(style.backgroundColor).hex is not null
\*   gradient, softEdge, partialRadius, clipped, shadow: the tests of the
\*             same names; border: borderInfo.type, wide: the sides whose
\*             width is > 0
VARIABLES
  elemPc,      \* "element", "text", "finish", "done" ("idle" elsewhere)
  elem,        \* the element
  elemQueue,   \* renderQueue
  elemDrawn    \* the calls made on the slide

elemVars == <<elemPc, elem, elemQueue, elemDrawn>>

ElementNode == "element"
TextNode == "text"

ElemItem(type, z, order, n, data) ==
  [type |-> type, zIndex |-> z, domOrder |-> order, node |-> n, data |-> data,
   fill |-> FALSE, line |-> FALSE, shadow |-> FALSE, runs |-> <<>>,
   side |-> "none", skip |-> FALSE]

SvgData(what) == [src |-> what, id |-> 0]

\* createCompositeBorderItems: one entry per side of width > 0, in the order
\* top, right, bottom, left, built from
\* common = { zIndex: zIndex + 1, domOrder, shapeType: 'rect' }: no type.
SideOrder == <<"top", "right", "bottom", "left">>

createCompositeBorderItems(wide, z, order) ==
  LET all == [i \in 1..4 |->
                [ElemItem("undefined", z + 1, order, ElementNode, NoData)
                   EXCEPT !.side = SideOrder[i], !.fill = TRUE]]
  IN  SelectSeq(all, LAMBDA it : it.side \in wide)

isTextContainer(e) == e.content \in {"text", "span"}
hasContent(e) == e.content # "empty"

\* getTextStyle(style).highlight: present when the background has a hex.
Highlight(background) == background

\* One run of the text payload; for a bare text node
\* if (child.nodeType === 3 && textOpts.highlight) delete textOpts.highlight.
PayloadRun(bare, background) ==
  [bare |-> bare, highlight |-> IF bare THEN FALSE ELSE Highlight(background)]

\* textPayload.text: <<>> stands for textPayload = null.
textPayload(e) ==
  CASE e.content = "text" -> <<PayloadRun(TRUE, e.fill)>>
    [] e.content = "span" -> <<PayloadRun(TRUE, e.fill), PayloadRun(FALSE, TRUE)>>
    [] OTHER -> <<>>

NullResult == [items |-> <<>>, job |-> FALSE, stopRecursion |-> FALSE, null |-> TRUE]
Result(items, job, stop) ==
  [items |-> items, job |-> job, stopRecursion |-> stop, null |-> FALSE]

\* The branch `if (hasGradient || (softEdge && bgColorObj.hex && !isImageWrapper))`.
GradientPath(e, z, order) ==
  LET text == textPayload(e)
      bg == <<ElemItem("image", z, order, ElementNode,
                       SvgData(IF e.softEdge THEN "blurredSvg" ELSE "gradientSvg"))>>
      txt == IF text # <<>>
             THEN <<[ElemItem("text", z + 1, order, ElementNode, NoData) EXCEPT !.runs = text]>>
             ELSE <<>>
      sides == IF e.border = "composite"
               THEN createCompositeBorderItems(e.wide, z, order)
               ELSE <<>>
  IN  bg \o txt \o sides

\* The branch `else if ((bgColorObj.hex && !isImageWrapper) || hasUniformBorder
\* || hasCompositeBorder || hasShadow || textPayload)`.
SolidPath(e, z, order) ==
  LET text == textPayload(e)
      shapeOpts(it) == [it EXCEPT !.fill = e.fill,
                                  !.line = (e.border = "uniform"),
                                  !.shadow = e.shadow]
      main ==
        IF e.partialRadius /\ e.fill /\ text = <<>>
        THEN <<ElemItem("image", z, order, ElementNode, SvgData("customShapeSvg"))>>
        ELSE IF text # <<>>
        THEN <<[shapeOpts(ElemItem("text", z, order, ElementNode, NoData)) EXCEPT !.runs = text]>>
        ELSE IF ~e.partialRadius
        THEN <<shapeOpts(ElemItem("shape", z, order, ElementNode, NoData))>>
        ELSE <<>>
      border ==
        IF e.border = "composite"
        THEN <<ElemItem("image", z + 1, order, ElementNode, SvgData("compositeBorderSvg"))>>
        ELSE <<>>
  IN  main \o border

\* prepareRenderItem(node, ...) for the element.
prepareElement(e, z, order) ==
  IF e.kind = "root" THEN NullResult
  ELSE IF e.kind = "zero" THEN NullResult
  ELSE IF e.partialRadius /\ e.fill /\ ~isTextContainer(e) /\ ~hasContent(e)
  THEN Result(<<ElemItem("image", z, order, ElementNode, SvgData("customShapeSvg"))>>,
              FALSE, TRUE)
  ELSE IF e.partialRadius /\ e.clipped /\ ~hasContent(e)
  THEN Result(<<ElemItem("image", z, order, ElementNode, NoData)>>, TRUE, TRUE)
  ELSE LET text == textPayload(e)
           items ==
             IF e.gradient \/ (e.softEdge /\ e.fill)
             THEN GradientPath(e, z, order)
             ELSE IF e.fill \/ e.border # "none" \/ e.shadow \/ text # <<>>
             THEN SolidPath(e, z, order)
             ELSE <<>>
       IN  Result(items, FALSE, text # <<>>)

\* prepareRenderItem(node, ...) for the bare text node (nodeType 3) of the
\* element: the run takes getTextStyle of the parent's style as it is.
prepareTextNode(e, z, order) ==
  IF isTextContainer(e) THEN NullResult
  ELSE Result(<<[ElemItem("text", z, order, TextNode, NoData)
                   EXCEPT !.runs = <<[bare |-> TRUE, highlight |-> Highlight(e.fill)]>>]>>,
              FALSE, FALSE)

Elements ==
  { [kind |-> k, content |-> c, fill |-> f, gradient |-> g, softEdge |-> se,
     partialRadius |-> pr, clipped |-> cl, shadow |-> sh, border |-> b,
     wide |-> w, z |-> z] :
      k \in {"root", "zero", "box"}, c \in {"empty", "text", "span", "mixed"},
      f \in BOOLEAN, g \in BOOLEAN, se \in BOOLEAN, pr \in BOOLEAN,
      cl \in BOOLEAN, sh \in BOOLEAN,
      b \in {"none", "uniform", "composite"}, w \in SUBSET SideNames,
      z \in {0, 5} }

\* borderInfo of the element: no side is wide without a border, all are on
\* a uniform one, at least one on a composite one.
WellFormed(e) ==
  /\ e.border = "none" => e.wide = {}
  /\ e.border = "uniform" => e.wide = SideNames
  /\ e.border = "composite" => e.wide # {}

NoElement ==
  [kind |-> "box", content |-> "empty", fill |-> FALSE, gradient |-> FALSE,
   softEdge |-> FALSE, partialRadius |-> FALSE, clipped |-> FALSE,
   shadow |-> FALSE, border |-> "none", wide |-> {}, z |-> 0]

IdleElem ==
  /\ elemPc = "idle"
  /\ elem = NoElement
  /\ elemQueue = <<>>
  /\ elemDrawn = <<>>

InitElem ==
  /\ elemPc = "element"
  /\ elem \in { e \in Elements : WellFormed(e) }
  /\ elemQueue = <<>>
  /\ elemDrawn = <<>>

\* collect(element, parentZIndex): the element is visible; its z-index is
\* elem.z.
CollectElement ==
  /\ elemPc = "element"
  /\ LET result == prepareElement(elem, elem.z, 0)
     IN  /\ elemQueue' = elemQueue \o result.items
         /\ elemPc' = IF ~result.stopRecursion /\ elem.content # "empty"
                      THEN "text" ELSE "finish"
  /\ UNCHANGED <<elem, elemDrawn>>

\* collect(text node, currentZ): the bare text child of the element.
CollectTextNode ==
  /\ elemPc = "text"
  /\ elemQueue' = elemQueue \o prepareTextNode(elem, elem.z, 1).items
  /\ elemPc' = "finish"
  /\ UNCHANGED <<elem, elemDrawn>>

\* The rest of processSlide: the capture job of a clipped leaf fills its
\* item or marks it skipped, then filter, sort and the calls on the slide.
FinishElement ==
  /\ elemPc = "finish"
  /\ \E captured \in BOOLEAN :
       LET settled == [k \in 1..Len(elemQueue) |->
                         LET it == elemQueue[k] IN
                         IF it.type = "image" /\ it.data = NoData
                         THEN IF captured THEN [it EXCEPT !.data = SvgData("capture")]
                                          ELSE [it EXCEPT !.skip = TRUE]
                         ELSE it]
       IN  /\ elemQueue' = settled
           /\ elemDrawn' = DrawAll(FinalQueue(settled))
  /\ elemPc' = "done"
  /\ UNCHANGED elem

NextElem == CollectElement \/ CollectTextNode \/ FinishElement

\* ------------------------------------------------------------------------
\* Deferred jobs and the source nodes
\* ------------------------------------------------------------------------
\* Number of jobs started together by Promise.all.
MaxJobs == 2

VARIABLES
  capPc,        \* per job: "registered", "capturing", "resolved", "done"
  capKind,      \* per job: "icon" (elementToCanvasImage) or "canvas"
  capOutcome,   \* per job: what the capture will yield, "data" or "null"
  capNodeId,    \* per source node: its id attribute ("" when it has none)
  capOriginalId,\* per job: originalId of elementToCanvasImage
  capQueue      \* renderQueue: item j belongs to job j and node j

capVars == <<capPc, capKind, capOutcome, capNodeId, capOriginalId, capQueue>>

Jobs == 1..MaxJobs

\* 'pptx-capture-' + Math.random().toString(36).substr(2, 9)
TempIds == {"pptx-capture-a", "pptx-capture-b"}
NodeIds == {"", "logo"}

CaptureItem(j) ==
  [type |-> "image", zIndex |-> 0, domOrder |-> j, node |-> j,
   geometry |-> j, data |-> NoData, skip |-> FALSE]

IdleCapture ==
  /\ capPc = [j \in Jobs |-> "idle"]
  /\ capKind = [j \in Jobs |-> "canvas"]
  /\ capOutcome = [j \in Jobs |-> "data"]
  /\ capNodeId = [j \in Jobs |-> ""]
  /\ capOriginalId = [j \in Jobs |-> ""]
  /\ capQueue = <<>>

\* The walk is over: every job is registered with its item queued.
InitCapture ==
  /\ capPc = [j \in Jobs |-> "registered"]
  /\ capKind \in [Jobs -> {"icon", "canvas"}]
  /\ capOutcome \in [Jobs -> {"data", "null"}]
  /\ capNodeId \in [Jobs -> NodeIds]
  /\ capOriginalId = [j \in Jobs |-> ""]
  /\ capQueue = [j \in Jobs |-> CaptureItem(j)]

\* if (data) item.options.data = data; else item.skip = true;
WriteItem(q, j, outcome) ==
  IF outcome = "data"
  THEN [q EXCEPT ![j].data = JobData(j)]
  ELSE [q EXCEPT ![j].skip = TRUE]

\* task() for the job of a CANVAS: node.toDataURL, all in one turn.
RunCanvasJob(j) ==
  /\ capPc[j] = "registered" /\ capKind[j] = "canvas"
  /\ capQueue' = WriteItem(capQueue, j, capOutcome[j])
  /\ capPc' = [capPc EXCEPT ![j] = "done"]
  /\ UNCHANGED <<capKind, capOutcome, capNodeId, capOriginalId>>

\* task() for the job of an icon: elementToCanvasImage up to html2canvas(...):
\* const originalId = node.id; node.id = tempId;
StartCapture(j) ==
  /\ capPc[j] = "registered" /\ capKind[j] = "icon"
  /\ \E tempId \in TempIds :
       capNodeId' = [capNodeId EXCEPT ![j] = tempId]
  /\ capOriginalId' = [capOriginalId EXCEPT ![j] = capNodeId[j]]
  /\ capPc' = [capPc EXCEPT ![j] = "capturing"]
  /\ UNCHANGED <<capKind, capOutcome, capQueue>>

\* .then / .catch of html2canvas:
\* if (originalId) node.id = originalId; else node.removeAttribute('id');
SettleCapture(j) ==
  /\ capPc[j] = "capturing"
  /\ capNodeId' = [capNodeId EXCEPT ![j] = capOriginalId[j]]
  /\ capPc' = [capPc EXCEPT ![j] = "resolved"]
  /\ UNCHANGED <<capKind, capOutcome, capOriginalId, capQueue>>

\* The job after `await elementToCanvasImage(...)`.
ResumeCaptureJob(j) ==
  /\ capPc[j] = "resolved"
  /\ capQueue' = WriteItem(capQueue, j, capOutcome[j])
  /\ capPc' = [capPc EXCEPT ![j] = "done"]
  /\ UNCHANGED <<capKind, capOutcome, capNodeId, capOriginalId>>

NextCapture ==
  \E j \in Jobs :
    \/ RunCanvasJob(j)
    \/ StartCapture(j)
    \/ SettleCapture(j)
    \/ ResumeCaptureJob(j)

\* ------------------------------------------------------------------------
\* BrowserPool (server)
\* ------------------------------------------------------------------------
\* CONFIG.pool.min and CONFIG.pool.max, scaled down, and the number of
\* concurrent Converter.convert calls.
PoolMin == 1
PoolMax == 2
MaxCallers == 3

VARIABLES
  poolAvailable,  \* this.available (the last element is popped first)
  poolInUse,      \* this.inUse
  poolPending,    \* this.pending: the callers waiting, oldest first
  poolClosed,     \* this.closed
  poolClosing,    \* the browsers close() is destroying ({} when it is not)
  poolCreated,    \* stats.created: browsers are numbered as they are made
  poolDestroyed,  \* the browsers passed to _destroyBrowser
  callPc,         \* per caller: where its acquire / release stands
  callBrowser,    \* per caller: the browser it was given (0: none)
  callSettled     \* per caller: how often its pending promise was settled

poolVars ==
  <<poolAvailable, poolInUse, poolPending, poolClosed, poolClosing, poolCreated,
    poolDestroyed, callPc, callBrowser, callSettled>>

Callers == 1..MaxCallers

SeqToSet(q) == {q[k] : k \in 1..Len(q)}
Without(q, x) == SelectSeq(q, LAMBDA y : y # x)

IdlePool ==
  /\ poolAvailable = <<>>
  /\ poolInUse = {}
  /\ poolPending = <<>>
  /\ poolClosed = FALSE
  /\ poolClosing = {}
  /\ poolCreated = 0
  /\ poolDestroyed = {}
  /\ callPc = [c \in Callers |-> "off"]
  /\ callBrowser = [c \in Callers |-> 0]
  /\ callSettled = [c \in Callers |-> 0]

\* new BrowserPool(CONFIG.pool) and init(): min browsers available.
InitPool ==
  /\ poolAvailable = [k \in 1..PoolMin |-> k]
  /\ poolInUse = {}
  /\ poolPending = <<>>
  /\ poolClosed = FALSE
  /\ poolClosing = {}
  /\ poolCreated = PoolMin
  /\ poolDestroyed = {}
  /\ callPc = [c \in Callers |-> "idle"]
  /\ callBrowser = [c \in Callers |-> 0]
  /\ callSettled = [c \in Callers |-> 0]

\* acquire(timeout) up to its first await or its return.
Acquire(c) ==
  /\ callPc[c] = "idle"
  /\ IF poolClosed
     THEN /\ callPc' = [callPc EXCEPT ![c] = "failed"]
          /\ UNCHANGED <<poolAvailable, poolInUse, poolPending, callBrowser>>
     ELSE IF Len(poolAvailable) > 0
     THEN LET browser == poolAvailable[Len(poolAvailable)] IN
          /\ poolAvailable' = SubSeq(poolAvailable, 1, Len(poolAvailable) - 1)
          /\ poolInUse' = poolInUse \cup {browser}
          /\ callBrowser' = [callBrowser EXCEPT ![c] = browser]
          /\ callPc' = [callPc EXCEPT ![c] = "holding"]
          /\ UNCHANGED poolPending
     ELSE IF Len(poolAvailable) + Cardinality(poolInUse) < PoolMax
     THEN /\ callPc' = [callPc EXCEPT ![c] = "launching"]
          /\ UNCHANGED <<poolAvailable, poolInUse, poolPending, callBrowser>>
     ELSE /\ poolPending' = Append(poolPending, c)
          /\ callPc' = [callPc EXCEPT ![c] = "waiting"]
          /\ UNCHANGED <<poolAvailable, poolInUse, callBrowser>>
  /\ UNCHANGED <<poolClosed, poolClosing, poolCreated, poolDestroyed, callSettled>>

\* acquire after `await this._createBrowser()`.
Launched(c) ==
  /\ callPc[c] = "launching"
  /\ poolCreated' = poolCreated + 1
  /\ poolInUse' = poolInUse \cup {poolCreated + 1}
  /\ callBrowser' = [callBrowser EXCEPT ![c] = poolCreated + 1]
  /\ callPc' = [callPc EXCEPT ![c] = "holding"]
  /\ UNCHANGED <<poolAvailable, poolPending, poolClosed, poolClosing, poolDestroyed,
                 callSettled>>

\* The setTimeout callback of a pending acquire.
AcquireTimeout(c) ==
  /\ callPc[c] = "waiting"
  /\ c \in SeqToSet(poolPending)
  /\ poolPending' = Without(poolPending, c)
  /\ callPc' = [callPc EXCEPT ![c] = "rejected"]
  /\ callSettled' = [callSettled EXCEPT ![c] = @ + 1]
  /\ UNCHANGED <<poolAvailable, poolInUse, poolClosed, poolClosing, poolCreated,
                 poolDestroyed, callBrowser>>

\* The end of release for a healthy browser: the oldest pending acquire
\* gets it, else it goes back to available.
HandBack(c, browser, inUse) ==
  IF Len(poolPending) > 0
  THEN LET w == Head(poolPending) IN
       /\ poolPending' = Tail(poolPending)
       /\ poolInUse' = inUse \cup {browser}
       /\ callBrowser' = [callBrowser EXCEPT ![c] = 0, ![w] = browser]
       /\ callPc' = [callPc EXCEPT ![c] = "released", ![w] = "holding"]
       /\ callSettled' = [callSettled EXCEPT ![w] = @ + 1]
       /\ UNCHANGED poolAvailable
  ELSE /\ poolAvailable' = Append(poolAvailable, browser)
       /\ poolInUse' = inUse
       /\ callBrowser' = [callBrowser EXCEPT ![c] = 0]
       /\ callPc' = [callPc EXCEPT ![c] = "released"]
       /\ UNCHANGED <<poolPending, callSettled>>

\* release(browser) up to its first await or its return. browser.contexts()
\* may throw (unhealthy: the browser is destroyed), there may be contexts
\* to close (await), or neither.
Release(c) ==
  /\ callPc[c] = "holding"
  /\ LET browser == callBrowser[c] IN
     IF browser \notin poolInUse
     THEN /\ callPc' = [callPc EXCEPT ![c] = "released"]
          /\ callBrowser' = [callBrowser EXCEPT ![c] = 0]
          /\ UNCHANGED <<poolAvailable, poolInUse, poolPending, poolDestroyed, callSettled>>
     ELSE \/ \* catch { healthy = false }: await this._destroyBrowser(browser)
             /\ poolInUse' = poolInUse \ {browser}
             /\ poolDestroyed' = poolDestroyed \cup {browser}
             /\ callBrowser' = [callBrowser EXCEPT ![c] = 0]
             /\ callPc' = [callPc EXCEPT ![c] = "released"]
             /\ UNCHANGED <<poolAvailable, poolPending, callSettled>>
          \/ \* await contexts[i].close()
             /\ poolInUse' = poolInUse \ {browser}
             /\ callPc' = [callPc EXCEPT ![c] = "releasing"]
             /\ UNCHANGED <<poolAvailable, poolPending, poolDestroyed,
                            callBrowser, callSettled>>
          \/ \* no context to close
             /\ HandBack(c, browser, poolInUse \ {browser})
             /\ UNCHANGED poolDestroyed
  /\ UNCHANGED <<poolClosed, poolClosing, poolCreated>>

\* release after the awaited contexts[i].close().
ReleaseResume(c) ==
  /\ callPc[c] = "releasing"
  /\ HandBack(c, callBrowser[c], poolInUse)
  /\ UNCHANGED <<poolClosed, poolClosing, poolCreated, poolDestroyed>>

\* close() up to `await Promise.all(...)`: every pending acquire is
\* rejected and its timer cleared.
Close ==
  /\ ~poolClosed
  /\ poolClosed' = TRUE
  /\ callPc' = [c \in Callers |->
                  IF c \in SeqToSet(poolPending) THEN "rejected" ELSE callPc[c]]
  /\ callSettled' = [c \in Callers |->
                       IF c \in SeqToSet(poolPending) THEN callSettled[c] + 1
                       ELSE callSettled[c]]
  /\ poolPending' = <<>>
  /\ poolClosing' = SeqToSet(poolAvailable) \cup poolInUse \cup {0}
  /\ UNCHANGED <<poolAvailable, poolInUse, poolCreated, poolDestroyed, callBrowser>>

\* close() after the await: this.available = []; this.inUse.clear().
CloseResume ==
  /\ poolClosing # {}
  /\ poolDestroyed' = poolDestroyed \cup (poolClosing \ {0})
  /\ poolAvailable' = <<>>
  /\ poolInUse' = {}
  /\ poolClosing' = {}
  /\ UNCHANGED <<poolPending, poolClosed, poolCreated, callPc, callBrowser, callSettled>>

NextPool ==
  \/ \E c \in Callers :
       \/ Acquire(c)
       \/ Launched(c)
       \/ AcquireTimeout(c)
       \/ Release(c)
       \/ ReleaseResume(c)
  \/ Close
  \/ CloseResume

\* ------------------------------------------------------------------------
\* Specifications
\* ------------------------------------------------------------------------
vars ==
  <<pipeVars, fitVars, borderVars, radiusVars, shadowVars, gradVars, colorVars,
    listVars, tableVars, fontVars, svgVars, walkVars, elemVars, capVars, poolVars,
    mediaVars>>

IdlePipe ==
  /\ parent = [n \in Nodes |-> 0]
  /\ nodeInfo = [n \in Nodes |-> RootInfo]
  /\ pc = "idle"
  /\ stack = <<>>
  /\ domOrderCounter = 0
  /\ renderQueue = <<>>
  /\ asyncTasks = <<>>
  /\ settleLog = <<>>
  /\ drawn = <<>>
  /\ second = FALSE
  /\ prevDrawn = <<>>
  /\ prevSettleLog = <<>>

NextPipe ==
  \/ Collect
  \/ StartJobs
  \/ \E j \in 1..Len(asyncTasks) : SettleJob(j)
  \/ Emit
  \/ Abort
  \/ Rerun

\* The slide pipeline.
Init ==
  /\ InitPipe
  /\ IdleFit
  /\ IdleBorder
  /\ IdleRadius
  /\ IdleShadow
  /\ IdleGrad
  /\ IdleColor
  /\ IdleList
  /\ IdleTable
  /\ IdleFont
  /\ IdleSvg
  /\ IdleWalk
  /\ IdleElem
  /\ IdleCapture
  /\ IdlePool
  /\ IdleMedia

Next ==
  /\ NextPipe
  /\ UNCHANGED <<fitVars, borderVars, radiusVars, shadowVars, gradVars, colorVars,
               listVars, tableVars, fontVars, svgVars, walkVars, elemVars, capVars,
               poolVars, mediaVars>>

Spec == Init /\ [][Next]_vars

\* The coordinate mapper.
FitInit ==
  /\ IdlePipe
  /\ InitFit
  /\ IdleBorder
  /\ IdleRadius
  /\ IdleShadow
  /\ IdleGrad
  /\ IdleColor
  /\ IdleList
  /\ IdleTable
  /\ IdleFont
  /\ IdleSvg
  /\ IdleWalk
  /\ IdleElem
  /\ IdleCapture
  /\ IdlePool
  /\ IdleMedia

FitNext ==
  /\ NextFit
  /\ UNCHANGED <<pipeVars, borderVars, radiusVars, shadowVars, gradVars, colorVars,
               listVars, tableVars, fontVars, svgVars, walkVars, elemVars, capVars,
               poolVars, mediaVars>>

SpecFit == FitInit /\ [][FitNext]_vars

\* Border classification.
BorderInit ==
  /\ IdlePipe
  /\ IdleFit
  /\ InitBorder
  /\ IdleRadius
  /\ IdleShadow
  /\ IdleGrad
  /\ IdleColor
  /\ IdleList
  /\ IdleTable
  /\ IdleFont
  /\ IdleSvg
  /\ IdleWalk
  /\ IdleElem
  /\ IdleCapture
  /\ IdlePool
  /\ IdleMedia

BorderNext ==
  /\ NextBorder
  /\ UNCHANGED <<pipeVars, fitVars, radiusVars, shadowVars, gradVars, colorVars,
               listVars, tableVars, fontVars, svgVars, walkVars, elemVars, capVars,
               poolVars, mediaVars>>

SpecBorder == BorderInit /\ [][BorderNext]_vars

\* Corner-radius legalization.
RadiusInit ==
  /\ IdlePipe
  /\ IdleFit
  /\ IdleBorder
  /\ InitRadius
  /\ IdleShadow
  /\ IdleGrad
  /\ IdleColor
  /\ IdleList
  /\ IdleTable
  /\ IdleFont
  /\ IdleSvg
  /\ IdleWalk
  /\ IdleElem
  /\ IdleCapture
  /\ IdlePool
  /\ IdleMedia

RadiusNext ==
  /\ NextRadius
  /\ UNCHANGED <<pipeVars, fitVars, borderVars, shadowVars, gradVars, colorVars,
               listVars, tableVars, fontVars, svgVars, walkVars, elemVars, capVars,
               poolVars, mediaVars>>

SpecRadius == RadiusInit /\ [][RadiusNext]_vars

\* Shadow conversion.
ShadowInit ==
  /\ IdlePipe
  /\ IdleFit
  /\ IdleBorder
  /\ IdleRadius
  /\ InitShadow
  /\ IdleGrad
  /\ IdleColor
  /\ IdleList
  /\ IdleTable
  /\ IdleFont
  /\ IdleSvg
  /\ IdleWalk
  /\ IdleElem
  /\ IdleCapture
  /\ IdlePool
  /\ IdleMedia

ShadowNext ==
  /\ NextShadow
  /\ UNCHANGED <<pipeVars, fitVars, borderVars, radiusVars, gradVars, colorVars,
               listVars, tableVars, fontVars, svgVars, walkVars, elemVars, capVars,
               poolVars, mediaVars>>

SpecShadow == ShadowInit /\ [][ShadowNext]_vars

\* Linear gradients.
GradInit ==
  /\ IdlePipe
  /\ IdleFit
  /\ IdleBorder
  /\ IdleRadius
  /\ IdleShadow
  /\ InitGrad
  /\ IdleColor
  /\ IdleList
  /\ IdleTable
  /\ IdleFont
  /\ IdleSvg
  /\ IdleWalk
  /\ IdleElem
  /\ IdleCapture
  /\ IdlePool
  /\ IdleMedia

GradNext ==
  /\ NextGrad
  /\ UNCHANGED <<pipeVars, fitVars, borderVars, radiusVars, shadowVars, colorVars,
               listVars, tableVars, fontVars, svgVars, walkVars, elemVars, capVars,
               poolVars, mediaVars>>

SpecGrad == GradInit /\ [][GradNext]_vars

\* Color parsing.
ColorInit ==
  /\ IdlePipe
  /\ IdleFit
  /\ IdleBorder
  /\ IdleRadius
  /\ IdleShadow
  /\ IdleGrad
  /\ InitColor
  /\ IdleList
  /\ IdleTable
  /\ IdleFont
  /\ IdleSvg
  /\ IdleWalk
  /\ IdleElem
  /\ IdleCapture
  /\ IdlePool
  /\ IdleMedia

ColorNext ==
  /\ NextColor
  /\ UNCHANGED <<pipeVars, fitVars, borderVars, radiusVars, shadowVars, gradVars,
               listVars, tableVars, fontVars, svgVars, walkVars, elemVars, capVars,
               poolVars, mediaVars>>

SpecColor == ColorInit /\ [][ColorNext]_vars

\* Native lists.
ListInit ==
  /\ IdlePipe
  /\ IdleFit
  /\ IdleBorder
  /\ IdleRadius
  /\ IdleShadow
  /\ IdleGrad
  /\ IdleColor
  /\ InitList
  /\ IdleTable
  /\ IdleFont
  /\ IdleSvg
  /\ IdleWalk
  /\ IdleElem
  /\ IdleCapture
  /\ IdlePool
  /\ IdleMedia

ListNext ==
  /\ NextList
  /\ UNCHANGED <<pipeVars, fitVars, borderVars, radiusVars, shadowVars, gradVars,
               colorVars, tableVars, fontVars, svgVars, walkVars, elemVars, capVars,
               poolVars, mediaVars>>

SpecList == ListInit /\ [][ListNext]_vars

\* Table cell background.
TableInit ==
  /\ IdlePipe
  /\ IdleFit
  /\ IdleBorder
  /\ IdleRadius
  /\ IdleShadow
  /\ IdleGrad
  /\ IdleColor
  /\ IdleList
  /\ InitTable
  /\ IdleFont
  /\ IdleSvg
  /\ IdleWalk
  /\ IdleElem
  /\ IdleCapture
  /\ IdlePool
  /\ IdleMedia

TableNext ==
  /\ NextTable
  /\ UNCHANGED <<pipeVars, fitVars, borderVars, radiusVars, shadowVars, gradVars,
               colorVars, listVars, fontVars, svgVars, walkVars, elemVars, capVars,
               poolVars, mediaVars>>

SpecTable == TableInit /\ [][TableNext]_vars

\* Font embedding.
FontInit ==
  /\ IdlePipe
  /\ IdleFit
  /\ IdleBorder
  /\ IdleRadius
  /\ IdleShadow
  /\ IdleGrad
  /\ IdleColor
  /\ IdleList
  /\ IdleTable
  /\ InitFont
  /\ IdleSvg
  /\ IdleWalk
  /\ IdleElem
  /\ IdleCapture
  /\ IdlePool
  /\ IdleMedia

FontNext ==
  /\ NextFont
  /\ UNCHANGED <<pipeVars, fitVars, borderVars, radiusVars, shadowVars, gradVars,
               colorVars, listVars, tableVars, svgVars, walkVars, elemVars, capVars,
               poolVars, mediaVars>>

SpecFont == FontInit /\ [][FontNext]_vars

\* The SVG job.
SvgInit ==
  /\ IdlePipe
  /\ IdleFit
  /\ IdleBorder
  /\ IdleRadius
  /\ IdleShadow
  /\ IdleGrad
  /\ IdleColor
  /\ IdleList
  /\ IdleTable
  /\ IdleFont
  /\ InitSvg
  /\ IdleWalk
  /\ IdleElem
  /\ IdleCapture
  /\ IdlePool
  /\ IdleMedia

SvgNext ==
  /\ NextSvg
  /\ UNCHANGED <<pipeVars, fitVars, borderVars, radiusVars, shadowVars, gradVars,
               colorVars, listVars, tableVars, fontVars, walkVars, elemVars, capVars,
               poolVars, mediaVars>>

SpecSvg == SvgInit /\ [][SvgNext]_vars

\* The walk of collect.
WalkInit ==
  /\ IdleFit
  /\ IdleBorder
  /\ IdleRadius
  /\ IdleShadow
  /\ IdleGrad
  /\ IdleColor
  /\ IdleList
  /\ IdleTable
  /\ IdleFont
  /\ IdleSvg
  /\ InitWalk
  /\ IdleElem
  /\ IdleCapture
  /\ IdlePool
  /\ IdleMedia

WalkNext ==
  /\ NextWalk
  /\ UNCHANGED <<fitVars, borderVars, radiusVars, shadowVars, gradVars, colorVars,
               listVars, tableVars, fontVars, svgVars, elemVars, capVars, poolVars,
               mediaVars>>

SpecWalk == WalkInit /\ [][WalkNext]_vars

\* A plain element and its text.
ElemInit ==
  /\ IdlePipe
  /\ IdleFit
  /\ IdleBorder
  /\ IdleRadius
  /\ IdleShadow
  /\ IdleGrad
  /\ IdleColor
  /\ IdleList
  /\ IdleTable
  /\ IdleFont
  /\ IdleSvg
  /\ IdleWalk
  /\ InitElem
  /\ IdleCapture
  /\ IdlePool
  /\ IdleMedia

ElemNext ==
  /\ NextElem
  /\ UNCHANGED <<pipeVars, fitVars, borderVars, radiusVars, shadowVars, gradVars,
               colorVars, listVars, tableVars, fontVars, svgVars, walkVars, capVars,
               poolVars, mediaVars>>

SpecElem == ElemInit /\ [][ElemNext]_vars

\* Deferred jobs and source nodes.
CaptureInit ==
  /\ IdlePipe
  /\ IdleFit
  /\ IdleBorder
  /\ IdleRadius
  /\ IdleShadow
  /\ IdleGrad
  /\ IdleColor
  /\ IdleList
  /\ IdleTable
  /\ IdleFont
  /\ IdleSvg
  /\ IdleWalk
  /\ IdleElem
  /\ InitCapture
  /\ IdlePool
  /\ IdleMedia

CaptureNext ==
  /\ NextCapture
  /\ UNCHANGED <<pipeVars, fitVars, borderVars, radiusVars, shadowVars, gradVars,
               colorVars, listVars, tableVars, fontVars, svgVars, walkVars, elemVars,
               poolVars, mediaVars>>

SpecCapture == CaptureInit /\ [][CaptureNext]_vars

\* The browser pool of the server.
PoolInit ==
  /\ IdlePipe
  /\ IdleFit
  /\ IdleBorder
  /\ IdleRadius
  /\ IdleShadow
  /\ IdleGrad
  /\ IdleColor
  /\ IdleList
  /\ IdleTable
  /\ IdleFont
  /\ IdleSvg
  /\ IdleWalk
  /\ IdleElem
  /\ IdleCapture
  /\ InitPool
  /\ IdleMedia

PoolNext ==
  /\ NextPool
  /\ UNCHANGED <<pipeVars, fitVars, borderVars, radiusVars, shadowVars, gradVars,
               colorVars, listVars, tableVars, fontVars, svgVars, walkVars, elemVars,
               capVars, mediaVars>>

SpecPool == PoolInit /\ [][PoolNext]_vars

\* A table with media.
MediaInit ==
  /\ IdlePipe
  /\ IdleFit
  /\ IdleBorder
  /\ IdleRadius
  /\ IdleShadow
  /\ IdleGrad
  /\ IdleColor
  /\ IdleList
  /\ IdleTable
  /\ IdleFont
  /\ IdleSvg
  /\ IdleWalk
  /\ IdleElem
  /\ IdleCapture
  /\ IdlePool
  /\ InitMedia

MediaNext ==
  /\ NextMedia
  /\ UNCHANGED <<pipeVars, fitVars, borderVars, radiusVars, shadowVars, gradVars,
               colorVars, listVars, tableVars, fontVars, svgVars, walkVars, elemVars,
               capVars, poolVars>>

SpecMedia == MediaInit /\ [][MediaNext]_vars

\* The walk over pruned nodes.
PruneInit ==
  /\ IdleFit
  /\ IdleBorder
  /\ IdleRadius
  /\ IdleShadow
  /\ IdleGrad
  /\ IdleColor
  /\ IdleList
  /\ IdleTable
  /\ IdleFont
  /\ IdleSvg
  /\ IdleElem
  /\ IdleCapture
  /\ IdlePool
  /\ IdleMedia
  /\ InitPrune

PruneNext ==
  /\ NextPrune
  /\ UNCHANGED <<fitVars, borderVars, radiusVars, shadowVars, gradVars, colorVars,
               listVars, tableVars, fontVars, svgVars, elemVars, capVars, poolVars,
               mediaVars>>

SpecPrune == PruneInit /\ [][PruneNext]_vars

\* ------------------------------------------------------------------------
\* Properties of the slide pipeline
\* ------------------------------------------------------------------------
Terminated == pc \in {"done", "aborted"}

\* C1: the draw commands of a finished processSlide call are in ascending
\* (zIndex, domOrder) order, whatever order the items were pushed in.
C1_DrawOrderAscending ==
  pc = "done" =>
    \A i, j \in 1..Len(drawn) :
      i < j => \/ drawn[i].zIndex < drawn[j].zIndex
               \/ /\ drawn[i].zIndex = drawn[j].zIndex
                  /\ drawn[i].domOrder <= drawn[j].domOrder

\* A finished call in which an item with zIndex 5 was pushed before an item
\* with zIndex 0 and both were drawn.
C1_Witness ==
  /\ pc = "done"
  /\ \E i, j \in 1..Len(renderQueue) :
       /\ i < j
       /\ Keep(renderQueue[i]) /\ Keep(renderQueue[j])
       /\ renderQueue[i].zIndex = 5 /\ renderQueue[j].zIndex = 0
  /\ \E a, b \in 1..Len(drawn) :
       a < b /\ drawn[a].zIndex = 0 /\ drawn[b].zIndex = 5

\* A draw command without the payload synthesized during the walk: what the
\* job phase can influence.
JobView(cmds) ==
  [i \in 1..Len(cmds) |->
     IF cmds[i].data.src = "job" THEN cmds[i] ELSE [cmds[i] EXCEPT !.data = NoData]]

\* C2: for the same tree and the same per-job results, the draw-command
\* sequence (same items, same order) does not depend on the order in which
\* the deferred jobs complete.
C2_CompletionOrderIrrelevant ==
  (second /\ pc = "done") => JobView(drawn) = JobView(prevDrawn)

\* Two finished calls on the same tree whose jobs completed in different
\* orders.
C2_Witness ==
  /\ second
  /\ pc = "done"
  /\ Len(settleLog) >= 2
  /\ settleLog # prevSettleLog
  /\ Len(drawn) >= 2

\* The task (if any) that owns the item at place i of the render queue.
OwnedByJob(i) == \E j \in 1..Len(asyncTasks) : asyncTasks[j].item = i
JobFailed(n) == nodeInfo[n].outcome \in {"null", "throw"}
FailedJobs == {j \in 1..Len(asyncTasks) : JobFailed(asyncTasks[j].node)}

\* The render queue of the run in which every job produced data.
QueueAllSucceeded ==
  [i \in 1..Len(renderQueue) |->
     IF OwnedByJob(i)
     THEN [renderQueue[i] EXCEPT !.data = JobData(renderQueue[i].node), !.skip = FALSE]
     ELSE renderQueue[i]]

NotOfFailedJob(item) == ~JobFailed(item.node)

CommandKeys(cmds) ==
  [i \in 1..Len(cmds) |-> <<cmds[i].node, cmds[i].cmd, cmds[i].zIndex, cmds[i].domOrder>>]

\* C3: when one deferred job fails to produce data, the call ends with
\* exactly that job's item missing: every other item is drawn, in the
\* order of the run in which the job succeeded.
C3_OnlyOwnItemMissing ==
  (Terminated /\ Cardinality(FailedJobs) = 1) =>
    CommandKeys(drawn) =
      CommandKeys(DrawAll(SelectSeq(FinalQueue(QueueAllSucceeded), NotOfFailedJob)))

\* C4: no way in which a deferred job ends aborts processSlide.
C4_NeverAborted == pc # "aborted"

\* C5: a deferred job has started only after collect(root, 0) returned.
C5_NoJobBeforeWalkEnds ==
  \A j \in 1..Len(asyncTasks) :
    asyncTasks[j].status # "registered" => (pc # "walk" /\ stack = <<>>)

\* The walk is over, two or more items are queued and a job is suspended.
C5_Witness ==
  /\ pc = "jobs"
  /\ Len(renderQueue) >= 2
  /\ \E j \in 1..Len(asyncTasks) : asyncTasks[j].status = "pending"

\* C6: a second call on the same tree with the same job results issues the
\* same draw commands with the same payload data.
C6_RerunIdentical ==
  (second /\ pc = "done") => drawn = prevDrawn

\* ------------------------------------------------------------------------
\* Properties of the coordinate mapper
\* ------------------------------------------------------------------------
\* C7: for a root of positive size the scaled content fits the 10 x 5.625
\* inch page and touches it on at least one axis, the centring offsets are
\* not negative, one scale serves both axes (an element keeps its aspect
\* ratio), and an element inside the root is placed inside the page.
C7_ContentFitsPage ==
  LET cw == RMul(contentWidthIn(rootRect), layoutConfig.scale)
      ch == RMul(contentHeightIn(rootRect), layoutConfig.scale)
      pageW == RInt(PPTX_WIDTH_IN)
      pageH == PPTX_HEIGHT_IN
  IN  /\ fitPc \in {"configured", "placed"} =>
           /\ RLe(cw, pageW) /\ RLe(ch, pageH)
           /\ cw = pageW \/ ch = pageH
           /\ RLe(RInt(0), layoutConfig.offX) /\ RLe(RInt(0), layoutConfig.offY)
      /\ fitPc = "placed" =>
           /\ RLe(RInt(0), placed.x) /\ RLe(RAdd(placed.x, placed.w), pageW)
           /\ RLe(RInt(0), placed.y) /\ RLe(RAdd(placed.y, placed.h), pageH)
           /\ RMul(placed.w, RInt(elemRect.height)) = RMul(placed.h, RInt(elemRect.width))

\* A root that is not 16:9 (so one axis is centred with a margin) and an
\* element reaching the root's right and bottom edges has been placed.
C7_Witness ==
  /\ fitPc = "placed"
  /\ rootRect.width * 9 # rootRect.height * 16
  /\ elemRect.left + elemRect.width = rootRect.x + rootRect.width
  /\ elemRect.top + elemRect.height = rootRect.y + rootRect.height
  /\ elemRect.width # elemRect.height

\* ------------------------------------------------------------------------
\* Properties of the border classification
\* ------------------------------------------------------------------------
AllSidesZero == \A n \in SideNames : borderStyle[n].width = 0
AllSidesEqual == \A n \in SideNames : borderStyle[n] = borderStyle["top"]

\* C8: getBorderInfo returns 'none' when all four widths are zero, else
\* 'uniform' when the four sides are equal in width, style and color, else
\* (some side differs in width, style or color) 'composite'.
C8_BorderClassification ==
  borderPc = "done" =>
    borderInfo.type = IF AllSidesZero THEN "none"
                      ELSE IF AllSidesEqual THEN "uniform"
                      ELSE "composite"

\* ------------------------------------------------------------------------
\* Properties of the corner-radius legalization
\* ------------------------------------------------------------------------
\* The factor of the styling specification: the least of the ratios
\* side / (sum of the two radii on that side) whose denominator is not
\* zero; none when every denominator is zero.
SideRatios(w, h, r) ==
  { RDiv(p[1], p[2]) :
      p \in { q \in { <<w, RAdd(r.tl, r.tr)>>, <<h, RAdd(r.tr, r.br)>>,
                      <<w, RAdd(r.br, r.bl)>>, <<h, RAdd(r.bl, r.tl)>> } : q[2].n # 0 } }

Scaled(r, f) ==
  [tl |-> RMul(r.tl, f), tr |-> RMul(r.tr, f), br |-> RMul(r.br, f), bl |-> RMul(r.bl, f)]

\* `out` is the legalization of radii r in a w x h box.
Legalized(w, h, r, out) ==
  /\ IF \E f \in SideRatios(w, h, r) : RLt(f, RInt(1))
     THEN \E f \in SideRatios(w, h, r) :
            /\ \A g \in SideRatios(w, h, r) : RLe(f, g)
            /\ out = Scaled(r, f)
     ELSE out = r
  /\ RLe(RAdd(out.tl, out.tr), w) /\ RLe(RAdd(out.br, out.bl), w)
  /\ RLe(RAdd(out.tr, out.br), h) /\ RLe(RAdd(out.bl, out.tl), h)

AllEqual60 ==
  /\ radiusIn.w = ExampleW /\ radiusIn.h = ExampleH
  /\ \A c \in {"tl", "tr", "br", "bl"} : radiusIn.radii[c] = ExampleR

Ran(f) == radiusOut[f].ran
Out(f) == radiusOut[f].radii

WholePixels == radiusIn.w.d = 1 /\ radiusIn.h.d = 1

\* C9 as stated: each of the three functions legalizes the radii in the
\* w x h box of the element, so all three compute the same radii; for
\* w = 100, h = 40 and all radii 60 every radius becomes 20.
C9_SameLegalizationInAllThree ==
  \A f \in RadiusFunctions :
    Ran(f) =>
      /\ Legalized(radiusIn.w, radiusIn.h, radiusIn.radii, Out(f))
      /\ AllEqual60 => \A c \in {"tl", "tr", "br", "bl"} : Out(f)[c] = RInt(20)
      /\ \A g \in RadiusFunctions : Ran(g) => Out(g) = Out(f)

\* C9 amended: generateCustomShapeSVG and getProcessedImage legalize the
\* radii in the w x h box and agree; elementToCanvasImage legalizes them in
\* the box rounded up to whole pixels (at least 1 x 1), so it agrees with
\* the other two when w and h are whole pixels; for w = 100, h = 40 and all
\* radii 60 every radius becomes 20 in all three.
C9_LegalizationPerFunction ==
  /\ \A f \in {"generateCustomShapeSVG", "getProcessedImage"} :
       Ran(f) => Legalized(radiusIn.w, radiusIn.h, radiusIn.radii, Out(f))
  /\ Ran("elementToCanvasImage") =>
       Legalized(RInt(MaxInt(Ceil(radiusIn.w), 1)), RInt(MaxInt(Ceil(radiusIn.h), 1)),
                 radiusIn.radii, Out("elementToCanvasImage"))
  /\ (Ran("generateCustomShapeSVG") /\ Ran("getProcessedImage")) =>
       Out("generateCustomShapeSVG") = Out("getProcessedImage")
  /\ (WholePixels /\ Ran("generateCustomShapeSVG") /\ Ran("elementToCanvasImage")) =>
       Out("generateCustomShapeSVG") = Out("elementToCanvasImage")
  /\ AllEqual60 =>
       \A f \in RadiusFunctions :
         Ran(f) => \A c \in {"tl", "tr", "br", "bl"} : Out(f)[c] = RInt(20)

\* The documented example has gone through all three functions.
C9_Witness ==
  /\ AllEqual60
  /\ \A f \in RadiusFunctions : Ran(f) /\ Out(f).tl = RInt(20)

\* ------------------------------------------------------------------------
\* Properties of the shadow conversion
\* ------------------------------------------------------------------------
VisibleOf(str) == SelectSeq(str, LAMBDA l : l.color # CssTransparent /\ l.match)
Converted == shadowPc = "done" /\ shadowResult.type = "outer"
FirstVisible == Head(VisibleOf(shadowStr))

\* Every value the angle may stand for is in [lo, hi), or is lo when lo = hi.
AngleWithin(angle, lo, hi) ==
  /\ angle.lo >= lo
  /\ angle.hi < hi \/ (angle.lo < angle.hi /\ angle.hi <= hi)

\* C10: the converted shadow has distance sqrt(dx*dx + dy*dy) (returned in
\* points, times 0.75 * scale) and an angle in [0, 360) that points the way
\* of (dx, dy): (10, 0) gives angle 0 and distance 10, (0, 10) gives angle 90.
C10_ShadowPolarForm ==
  Converted =>
    LET dx == FirstVisible.x
        dy == FirstVisible.y
        pt == RMul(Rat(3, 4), shadowScale)
    IN  /\ AngleWithin(shadowResult.angle, 0, 360)
        /\ RMul(shadowResult.offset.sq, RInt(16)) =
             RMul(RInt(dx * dx + dy * dy), RMul(RInt(9), RMul(shadowScale, shadowScale)))
        /\ dy > 0 => shadowResult.angle.lo >= 0 /\ shadowResult.angle.hi <= 180
                       /\ shadowResult.angle # Exactly(0)
        /\ dy < 0 => shadowResult.angle.lo >= 180 /\ shadowResult.angle # Exactly(180)
        /\ (dy = 0 /\ dx >= 0) => shadowResult.angle = Exactly(0)
        /\ (dy = 0 /\ dx < 0) => shadowResult.angle = Exactly(180)
        /\ dx > 0 => shadowResult.angle.hi <= 90 \/ shadowResult.angle.lo >= 270
        /\ dx < 0 => shadowResult.angle.lo >= 90 /\ shadowResult.angle.hi <= 270
        /\ (dx = 10 /\ dy = 0) =>
             /\ shadowResult.angle = Exactly(0)
             /\ shadowResult.offset = SqrtTimes(SqrtOf(RInt(10 * 10)), pt)
        /\ (dx = 0 /\ dy = 10) => shadowResult.angle = Exactly(90)

\* A shadow that points up and to the left has been converted, behind a
\* transparent layer.
C10_Witness ==
  /\ Converted
  /\ Len(shadowStr) = 2
  /\ FirstVisible.x = -10 /\ FirstVisible.y = -10
  /\ shadowResult.angle = Exactly(225)

\* The layers whose color has alpha > 0 and that have the parseable form.
VisibleLayersOf(str) == SelectSeq(str, LAMBDA l : l.color.a > 0 /\ l.match)

\* C11: the result is the conversion of the first layer with alpha > 0,
\* every fully transparent layer before it being skipped, and null when no
\* layer is visible or parseable.
C11_FirstVisibleLayer ==
  shadowPc = "done" =>
    IF VisibleLayersOf(shadowStr) = <<>>
    THEN shadowResult = NoShadow
    ELSE shadowResult = getVisibleShadow(<<Head(VisibleLayersOf(shadowStr))>>, shadowScale)

\* ------------------------------------------------------------------------
\* Properties of the gradient generation
\* ------------------------------------------------------------------------
Generated == gradPc = "done"

\* C12: the keyword 'to right' gives the horizontal vector x1 = 0%,
\* y1 = 0%, x2 = 100%, y2 = 0%, whatever the number of color stops.
C12_ToRightHorizontal ==
  (Generated /\ gradIn.first = ToDirection("right")) =>
    gradOut.vector = Vector(0, 0, 1000, 0)

\* The direction of a gradient vector: where it ends relative to its start.
Heading(v) == <<v.x2 - v.x1, v.y2 - v.y1>>
Up == <<0, -1000>>
Rightward == <<1000, 0>>
Down == <<0, 1000>>
Leftward == <<-1000, 0>>

\* The angle in degrees that an angle part stands for in CSS.
CssDegrees(first) ==
  CASE first.unit = "deg" -> first.val
    [] first.unit = "turn" -> RMul(first.val, RInt(360))
    [] OTHER -> RInt(90 * ((first.val.n + 7000) \div 15708))

\* C13: an angle gives the vector of the equivalent keyword (0deg up, 90deg
\* to the right, 180deg down, 270deg to the left), angles in rad or turn
\* being converted to degrees first.
C13_AngleMatchesKeyword ==
  (Generated /\ gradIn.first.kind = "angle") =>
    LET deg == CssDegrees(gradIn.first)
    IN  /\ deg = RInt(0) => Heading(gradOut.vector) = Up
        /\ deg = RInt(90) => Heading(gradOut.vector) = Rightward
        /\ deg = RInt(180) => Heading(gradOut.vector) = Down
        /\ deg = RInt(270) => Heading(gradOut.vector) = Leftward

\* ------------------------------------------------------------------------
\* Properties of the color parsing
\* ------------------------------------------------------------------------
UpperHexDigits == {HexDigit[k] : k \in 1..16}

\* C14: an input whose alpha is 0 (the keyword transparent, or any form
\* with alpha 0 whatever its RGB channels) gives hex = null; every other
\* color gives six upper-case hexadecimal digits and an opacity in (0, 1].
C14_NullHexIffTransparent ==
  colorPc = "done" =>
    IF colorStr.form = "keyword" \/ colorStr.c.a = 0
    THEN colorObj.hex = NullHex
    ELSE /\ Len(colorObj.hex) = 6
         /\ \A i \in 1..6 : colorObj.hex[i] \in UpperHexDigits
         /\ RLt(RInt(0), colorObj.opacity) /\ RLe(colorObj.opacity, RInt(1))

\* ------------------------------------------------------------------------
\* Properties of the native lists
\* ------------------------------------------------------------------------
Lis == listNode.lis
AllNoneWithText ==
  /\ listNode.tagName = "UL"
  /\ \A i \in 1..Len(Lis) : Lis[i].listStyleType = "none" /\ Lis[i].runs >= 1

\* C15: a UL whose N items all have text and list-style-type none yields
\* no bullet-carrier run and no run with a bullet option, and breakLine on
\* exactly the last run of every item but the final one (N - 1 runs).
C15_NoBulletsBreaksBetweenItems ==
  (listPc = "done" /\ AllNoneWithText) =>
    LET parts == listItem.textParts
    IN  /\ listItem.fastPath
        /\ \A k \in 1..Len(parts) : parts[k].text # "u200B" /\ parts[k].bullet = "false"
        /\ \A k \in 1..Len(parts) :
             parts[k].breakLine <=>
               /\ parts[k].item < Len(Lis)
               /\ parts[k].idx = Lis[parts[k].item].runs
        /\ Cardinality({k \in 1..Len(parts) : parts[k].breakLine}) = Len(Lis) - 1

\* Three items, each with text and list-style-type none, were rendered.
C15_Witness ==
  /\ listPc = "done"
  /\ AllNoneWithText
  /\ Len(Lis) = 3
  /\ Cardinality({k \in 1..Len(listItem.textParts) : listItem.textParts[k].breakLine}) = 2

\* ------------------------------------------------------------------------
\* Properties of the table cell background
\* ------------------------------------------------------------------------
\* The cell, its row, its section if any, and the table, innermost first.
FillChain ==
  <<TableElement("TD", tableCell.backgroundColor)>>
    \o SelectSeq(tableCell.ancestors, LAMBDA e : e.tagName # "BODY")
Colored(e) == e.backgroundColor.a > 0

\* C16: a cell with a non-transparent background keeps its own color; a
\* transparent cell takes the color of the nearest of row, section and
\* table that has a non-transparent background.
C16_CellInheritsBackground ==
  tablePc = "done" =>
    \A k \in 1..Len(FillChain) :
      (Colored(FillChain[k]) /\ \A j \in 1..(k - 1) : ~Colored(FillChain[j])) =>
        cellFill = parseColor(FillChain[k].backgroundColor).hex

\* ------------------------------------------------------------------------
\* Properties of the font embedding
\* ------------------------------------------------------------------------
\* C17: fonts are detected and embedded by default: unless autoEmbedFonts
\* is explicitly false, detection runs and every detected font is on the
\* embed list.
C17_AutoEmbedByDefault ==
  (fontPc \in {"detected", "done"} /\ fontOptions.autoEmbedFonts # "false") =>
    /\ detectionRan
    /\ \A i \in 1..Len(usedFonts) :
         \E k \in 1..Len(fontsToEmbed) : fontsToEmbed[k] = usedFonts[i]

\* ------------------------------------------------------------------------
\* Properties of the SVG job
\* ------------------------------------------------------------------------
\* atob: four sextets to three bytes.
RECURSIVE atob(_)
atob(b64) ==
  IF b64 = <<>> THEN <<>>
  ELSE LET a == b64[1]
           b == b64[2]
           c == b64[3]
           d == b64[4]
           first == a * 4 + (b \div 16)
       IN  IF c = 64 THEN <<first>>
           ELSE IF d = 64 THEN <<first, (b % 16) * 16 + (c \div 4)>>
           ELSE <<first, (b % 16) * 16 + (c \div 4), (c % 4) * 64 + d>>
                  \o atob(SubSeq(b64, 5, Len(b64)))

Count(str, code) == Cardinality({i \in 1..Len(str) : str[i] = code})

\* The decoded markup keeps the children and carries the xmlns and the
\* measured width and height.
KeepsStructure(markup, node) ==
  /\ Len(markup) >= 6
  /\ markup[1] = MarkupCode.svg /\ markup[2] = MarkupCode.xmlns
  /\ markup[3] = MarkupCode.width /\ markup[4] = node.width
  /\ markup[5] = MarkupCode.height /\ markup[6] = node.height
  /\ Count(SubSeq(markup, 7, Len(markup)), MarkupCode.child) = node.children

\* C18: the SVG job uses svgToSvg iff svgAsVector is truthy; svgToSvg
\* never rejects, and resolves to a base64 SVG data URL whose decoded markup
\* keeps the children, the xmlns and the measured width and height, or to
\* null when serialization throws; a null result marks the item skipped.
C18_SvgAsVectorJob ==
  /\ svgConverter = "svgToSvg" <=> (svgPc \notin {"idle", "start"} /\ svgAsVector = "true")
  /\ svgConverter = "svgToPng" <=> (svgPc \notin {"idle", "start"} /\ svgAsVector # "true")
  /\ svgConverter = "svgToSvg" =>
       /\ svgPromise.state = "fulfilled" /\ svgPc # "rejected"
       /\ svgPromise.value.kind = "null" <=> svgNode.throws
       /\ svgPromise.value.kind = "string" =>
            /\ svgPromise.value.prefix = "data:image/svg+xml;base64,"
            /\ KeepsStructure(atob(svgPromise.value.payload), svgNode)
  /\ (svgPc = "done" /\ svgPromise.value.kind = "null") =>
       svgItem.skip /\ svgItem.data = NoValue
  /\ (svgPc = "done" /\ svgPromise.value.kind = "string") =>
       ~svgItem.skip /\ svgItem.data = svgPromise.value

\* A vector conversion of an <svg> with two children and a non-ASCII text
\* has finished with data.
C18_Witness ==
  /\ svgPc = "done" /\ svgConverter = "svgToSvg"
  /\ svgNode.children = 2 /\ svgNode.text = <<233>>
  /\ svgItem.data.kind = "string"


\* ------------------------------------------------------------------------
\* Properties of the walk of collect
\* ------------------------------------------------------------------------
Calls == 1..Len(visits)

\* The call of collect on node n, if there was one.
Visited(n) == \E i \in Calls : visits[i].node = n
CallOf(n) == CHOOSE i \in Calls : visits[i].node = n

\* a is a proper ancestor of n in the tree.
Ancestor(a, n) == a # n /\ IsAncestorOrSelf(parent, a, n)

\* Nodes are numbered in document order (ParentMaps), which is the order
\* of a depth-first pre-order walk over childNodes.
DocumentOrder(a, b) == a < b

\* The counter: the i-th call got order i - 1, and no node is visited twice.
CounterByOne ==
  /\ domOrderCounter = Len(visits)
  /\ \A i \in Calls : visits[i].order = i - 1
  /\ \A i, j \in Calls : visits[i].node = visits[j].node => i = j

PreOrder ==
  \A i, j \in Calls :
    /\ i < j => /\ visits[i].order < visits[j].order
                /\ DocumentOrder(visits[i].node, visits[j].node)
    /\ Ancestor(visits[i].node, visits[j].node) =>
         visits[i].order < visits[j].order

\* Every visited node other than the root was reached through its parent.
ThroughParent ==
  \A j \in Calls :
    visits[j].node # Root =>
      /\ Visited(parent[visits[j].node])
      /\ CallOf(parent[visits[j].node]) < j

ZRule ==
  \A j \in Calls :
    LET v == visits[j]
        inherited == IF v.node = Root THEN 0
                     ELSE visits[CallOf(parent[v.node])].currentZ
        own == nodeInfo[v.node].z
    IN  /\ v.parentZIndex = inherited
        /\ ~v.hidden => v.currentZ = IF own.auto THEN inherited ELSE own.value

\* The items carry the order and the z-index of the call that made them
\* (the image of a composite border sits one level above its shape).
ItemsCarryCall ==
  \A k \in 1..Len(renderQueue) :
    LET it == renderQueue[k] IN
    /\ Visited(it.node)
    /\ it.domOrder = visits[CallOf(it.node)].order
    /\ it.zIndex = visits[CallOf(it.node)].currentZ
                     + (IF it.data.src = "compositeBorderSvg" THEN 1 ELSE 0)

\* C19: collect numbers its calls 0, 1, 2, ... in depth-first pre-order, so
\* an earlier visit has a strictly smaller domOrder and a descendant a
\* larger one than its ancestor; the effective z-index of a node is its own
\* computed z-index unless that is 'auto', else the effective z-index of its
\* parent (0 above the root), and that value is what its children receive.
C19_DomOrderAndZInheritance ==
  /\ CounterByOne
  /\ ThroughParent
  /\ PreOrder
  /\ ZRule
  /\ ItemsCarryCall

\* A finished walk down a chain: an explicit z-index, a child on 'auto'
\* that takes it over, and a grandchild that replaces it with its own.
C19_Witness ==
  /\ stack = <<>>
  /\ \E i, j, k \in Calls :
       /\ parent[visits[j].node] = visits[i].node
       /\ parent[visits[k].node] = visits[j].node
       /\ ~nodeInfo[visits[i].node].z.auto
       /\ nodeInfo[visits[j].node].z.auto /\ ~visits[j].hidden
       /\ visits[j].currentZ = nodeInfo[visits[i].node].z.value
       /\ ~nodeInfo[visits[k].node].z.auto /\ ~visits[k].hidden
       /\ visits[k].currentZ = nodeInfo[visits[k].node].z.value
       /\ visits[k].currentZ # visits[j].currentZ
       /\ visits[i].order < visits[j].order
       /\ visits[j].order < visits[k].order
       /\ \E q \in 1..Len(renderQueue) : renderQueue[q].node = visits[k].node


\* What prepareRenderItem returned to the call of collect on node n.
ResultOf(n) ==
  LET v == visits[CallOf(n)] IN prepareRenderItem(n, v.order, v.currentZ, 1)

\* The call on n got stopRecursion = true back.
StoppedAt(n) ==
  /\ Visited(n)
  /\ ~visits[CallOf(n)].hidden
  /\ ResultOf(n).stopRecursion

\* Nothing in the walk mentions node d: no call, no pending call, no item
\* and no job.
Untouched(d) ==
  /\ ~Visited(d)
  /\ \A k \in 1..Len(stack) : stack[k].node # d
  /\ \A k \in 1..Len(renderQueue) : renderQueue[k].node # d
  /\ \A k \in 1..Len(asyncTasks) : asyncTasks[k].node # d

\* The items and the job of node n in the queues.
ItemsOf(n) == SelectSeq(renderQueue, LAMBDA it : it.node = n)
JobsOf(n) == SelectSeq(asyncTasks, LAMBDA t : t.node = n)

\* C20: when prepareRenderItem returns stopRecursion = true for a node,
\* collect is never called on a descendant of it: the subtree adds no item
\* and no job beyond what the handler of the node itself returned.
C20_StopRecursionSkipsSubtree ==
  \A a \in Nodes :
    StoppedAt(a) =>
      /\ \A d \in Nodes : Ancestor(a, d) => Untouched(d)
      /\ Len(ItemsOf(a)) = Len(ResultOf(a).items)
      /\ Len(JobsOf(a)) = (IF ResultOf(a).job THEN 1 ELSE 0)

\* A finished walk that stopped at a node whose child is a visible element
\* the classifier would have turned into an item.
C20_Witness ==
  /\ stack = <<>>
  /\ \E a, d \in Nodes :
       /\ StoppedAt(a)
       /\ parent[d] = a
       /\ nodeInfo[d].kind \in {"div", "img"}
       /\ ~Visited(d)
       /\ Len(ItemsOf(a)) = 1 /\ Len(JobsOf(a)) = 1


\* ------------------------------------------------------------------------
\* Properties of pruning
\* ------------------------------------------------------------------------
\* Node n has no visual extent or is hidden by its computed style.
Pruned(n) == nodeInfo[n].kind \in {"hidden", "zero"}

NoItemOf(n) == \A k \in 1..Len(renderQueue) : renderQueue[k].node # n

\* C21: a node with a bounding box under 0.5px, display:none,
\* visibility:hidden or opacity 0 produces no item, and none of its
\* descendants is visited or produces an item.
C21_PrunedSubtree ==
  \A n \in Nodes :
    (Visited(n) /\ Pruned(n)) =>
      /\ NoItemOf(n)
      /\ \A d \in Nodes : Ancestor(n, d) => (~Visited(d) /\ NoItemOf(d))

\* The same statement for the nodes hidden by their computed style alone.
C21_HiddenSubtree ==
  \A n \in Nodes :
    (Visited(n) /\ nodeInfo[n].kind = "hidden") =>
      /\ NoItemOf(n)
      /\ \A d \in Nodes : Ancestor(n, d) => (~Visited(d) /\ NoItemOf(d))

\* A node without extent never has an item of its own.
C21_ZeroExtentNoOwnItem ==
  \A n \in Nodes : nodeInfo[n].kind = "zero" => NoItemOf(n)


\* ------------------------------------------------------------------------
\* Properties of table media
\* ------------------------------------------------------------------------
\* Position of the item of node n in sequence q (0 if it has none).
PosIn(q, n) ==
  IF \E k \in 1..Len(q) : q[k].node = n
  THEN CHOOSE k \in 1..Len(q) : q[k].node = n
  ELSE 0

MediaCount == Len(mediaTable.mediaEls)
TableOrder == mediaTable.before

QueueItems == {elemQueue[k] : k \in 1..Len(elemQueue)}

\* The element's stackOrder: its own z-index, or the inherited one.
StackOrder == elem.z

\* The items queued one level above their element: the text over a gradient
\* or blurred background, the side rectangles and the composite border SVG.
Overlay(it) ==
  \/ /\ it.type = "text" /\ it.node = ElementNode
     /\ (elem.gradient \/ (elem.softEdge /\ elem.fill))
  \/ it.side # "none"
  \/ it.data = SvgData("compositeBorderSvg")

\* C23: every item queued for a node carries exactly the node's stackOrder
\* (its explicit z-index or the inherited one); no item is queued with any
\* other value.
C23_ItemsCarryStackOrder ==
  \A it \in QueueItems : it.zIndex = StackOrder

\* What the code does: the overlays sit at stackOrder + 1, all else at
\* stackOrder.
C23_OverlaysOneAbove ==
  \A it \in QueueItems :
    it.zIndex = StackOrder + (IF Overlay(it) THEN 1 ELSE 0)


ItemKinds == {"shape", "image", "text", "table", "chart"}

\* The items that survive the filter, and the side rectangles among them.
Survivors == FinalQueue(elemQueue)
SideItems == {it \in QueueItems : it.side # "none"}

\* C24: every queued item has a kind in {shape, image, text, table, chart}
\* and every item that survives the filter produces exactly one draw
\* command; a composite border on an element with a gradient or blurred
\* background yields one filled rectangle per side of width > 0.
C24_EveryItemDrawn ==
  /\ \A it \in QueueItems : it.type \in ItemKinds
  /\ elemPc = "done" =>
       /\ Len(elemDrawn) = Len(Survivors)
       /\ (elem.kind = "box" /\ elem.border = "composite"
            /\ (elem.gradient \/ (elem.softEdge /\ elem.fill))
            /\ ~(elem.partialRadius /\ elem.content = "empty" /\ (elem.fill \/ elem.clipped)))
          => Cardinality({k \in 1..Len(elemDrawn) :
                            /\ elemDrawn[k].cmd = "addShape"
                            /\ elemDrawn[k].zIndex = StackOrder + 1})
               = Cardinality(elem.wide)

\* What the code does: the side rectangles are queued, one per wide side,
\* but carry no type; all other items have a kind and are drawn once.
C24_SidesQueuedNotDrawn ==
  /\ \A it \in QueueItems : it.type \in ItemKinds \/ it.side # "none"
  /\ elemPc = "done" =>
       /\ Len(elemDrawn) = Len(Survivors) - Cardinality(SideItems)
       /\ \A k \in 1..Len(elemDrawn) : elemDrawn[k].cmd # "addShape" \/ elemDrawn[k].zIndex = StackOrder


\* The element has a non-blank bare text node among its children.
HasBareText == elem.content # "empty"

\* The walk is past the element and, where it descends, past the text node.
WalkOver == elemPc \in {"finish", "done"}

\* collect was called on the bare text node.
TextNodeReached ==
  /\ HasBareText
  /\ WalkOver
  /\ ~prepareElement(elem, elem.z, 0).stopRecursion

OwnTextItem == \E it \in QueueItems : it.node = TextNode /\ it.type = "text"

\* The element was emitted as a text item that holds the bare text.
ParentHoldsText ==
  \E it \in QueueItems :
    /\ it.node = ElementNode /\ it.type = "text"
    /\ \E r \in 1..Len(it.runs) : it.runs[r].bare

\* C25: a non-blank bare text node is left out as an item of its own only
\* when its parent was emitted as a text item that contains the text; in
\* every other case in which the walk reaches it (the parent being the
\* slide root or a parent without an item included) it is emitted as its
\* own text item.
C25_BareTextNeverLost ==
  (HasBareText /\ WalkOver) =>
    /\ ~OwnTextItem => ParentHoldsText
    /\ TextNodeReached => OwnTextItem

\* The same with the root and the boxes without extent left aside.
C25_BareTextOfBoxes ==
  (HasBareText /\ WalkOver /\ elem.kind = "box") =>
    /\ ~OwnTextItem => ParentHoldsText
    /\ TextNodeReached => OwnTextItem


\* The element was classified by the generic path (element-renderer.js:431).
OnGenericPath ==
  /\ elemPc # "element"
  /\ elem.kind = "box"
  /\ ~(elem.partialRadius /\ elem.content = "empty" /\ (elem.fill \/ elem.clipped))
  /\ ~(elem.gradient \/ (elem.softEdge /\ elem.fill))

\* A shape or text item of the element with its border line and shadow.
CarriesLineAndShadow ==
  \E it \in QueueItems :
    /\ it.node = ElementNode
    /\ it.type \in {"shape", "text"}
    /\ it.line = (elem.border = "uniform")
    /\ it.shadow = elem.shadow

\* C26: on the generic path an element with a uniform border or a visible
\* box-shadow always yields a shape or text item whose options carry that
\* line and that shadow, whatever its corner radii, fill or content.
C26_BorderAndShadowKept ==
  (OnGenericPath /\ (elem.border = "uniform" \/ elem.shadow)) => CarriesLineAndShadow

\* The same for the elements whose four corner radii are equal.
C26_KeptWithEqualRadii ==
  (OnGenericPath /\ (elem.border = "uniform" \/ elem.shadow) /\ ~elem.partialRadius)
    => CarriesLineAndShadow

\* With unequal radii the line and shadow survive on a text payload only.
C26_KeptWithText ==
  (OnGenericPath /\ (elem.border = "uniform" \/ elem.shadow) /\ isTextContainer(elem))
    => CarriesLineAndShadow


\* The runs of all queued text items that come from a bare text node.
BareRuns ==
  UNION { {it.runs[r] : r \in {q \in 1..Len(it.runs) : it.runs[q].bare}} :
            it \in QueueItems }

\* C27: a text run that comes from a bare text node never carries a
\* highlight taken from its parent's background, inside a text container
\* and in the independent text item of a bare text node alike.
C27_NoParentHighlight ==
  \A run \in BareRuns : ~run.highlight

\* The same for the runs built inside a text container.
C27_NoHighlightInContainer ==
  \A it \in QueueItems :
    it.node = ElementNode =>
      \A r \in 1..Len(it.runs) : it.runs[r].bare => ~it.runs[r].highlight


\* ------------------------------------------------------------------------
\* Properties of the deferred jobs' writes
\* ------------------------------------------------------------------------
\* Job j took a step.
Stepped(j) == capPc'[j] # capPc[j]

\* The queue keeps its entries and their order, and an item changes in
\* data or skip only, and only when its own job steps.
QueueFrame ==
  /\ Len(capQueue') = Len(capQueue)
  /\ \A k \in 1..Len(capQueue) :
       /\ capQueue'[k].node = capQueue[k].node
       /\ capQueue'[k].type = capQueue[k].type
       /\ capQueue'[k].zIndex = capQueue[k].zIndex
       /\ capQueue'[k].domOrder = capQueue[k].domOrder
       /\ capQueue'[k].geometry = capQueue[k].geometry
       /\ capQueue'[k] # capQueue[k] => Stepped(k)

\* No attribute of a source node changes.
NodesFrame == capNodeId' = capNodeId

\* C28: while it runs, a deferred job writes only options.data or skip of
\* the one item it was created for: the queue keeps its entries, their
\* zIndex, domOrder and geometry, and no state visible to another job
\* changes, the attributes of the source nodes included.
C28_JobWritesOwnItemOnly == [][QueueFrame /\ NodesFrame]_capVars

\* The part of the statement about the render queue.
C28_QueueUntouched == [][QueueFrame]_capVars

\* A node that had an id has it again once its capture has settled.
C28_IdRestored ==
  \A j \in Jobs :
    capPc[j] \in {"resolved", "done"} /\ capKind[j] = "icon"
      => capNodeId[j] = capOriginalId[j]


\* ------------------------------------------------------------------------
\* Properties of the browser pool
\* ------------------------------------------------------------------------
Launching == {c \in Callers : callPc[c] = "launching"}

\* The browsers the pool counts and the ones it is about to add.
LiveBrowsers ==
  Len(poolAvailable) + Cardinality(poolInUse) + Cardinality(Launching)

\* C29: under any interleaving of acquire, release and close, the number
\* of live browsers (available + in use + being launched) never exceeds the
\* configured max.
C29_NeverOverMax == LiveBrowsers <= PoolMax

\* What the test of acquire does guarantee: no launch is begun at or above
\* max, counting the browsers the pool holds at that moment.
C29_LaunchBelowMaxAtTest ==
  [][\A c \in Callers :
       (callPc[c] = "idle" /\ callPc'[c] = "launching")
         => Len(poolAvailable) + Cardinality(poolInUse) < PoolMax]_poolVars


\* Callers whose acquire is pending.
Waiting == SeqToSet(poolPending)

\* A pending acquire is settled at most once, it is pending exactly while
\* it is unsettled, and no two callers hold the same browser.
SettledOnce ==
  /\ \A c \in Callers : callSettled[c] <= 1
  /\ \A c \in Callers : (c \in Waiting) = (callPc[c] = "waiting")
  /\ \A c \in Waiting : callSettled[c] = 0
  /\ \A c, d \in Callers :
       (c # d /\ callBrowser[c] # 0 /\ callPc[c] \in {"holding", "releasing"}
              /\ callPc[d] \in {"holding", "releasing"})
         => callBrowser[c] # callBrowser[d]

\* Browsers being released: held by release across its await.
Releasing == {c \in Callers : callPc[c] = "releasing"}

\* No acquire is pending while the pool has a free slot.
NoStrandedWaiter ==
  poolPending # <<>> =>
    LiveBrowsers + Cardinality(Releasing) >= PoolMax

\* Caller c completes a release of a browser the pool still tracked.
ReleaseCompletes(c) ==
  /\ callPc'[c] = "released"
  /\ \/ callPc[c] = "releasing"
     \/ callPc[c] = "holding" /\ callBrowser[c] \in poolInUse

\* When a release completes with acquires pending and the pool below max,
\* the oldest pending acquire has a browser.
FifoOnRelease ==
  \A c \in Callers :
    (/\ ReleaseCompletes(c)
     /\ poolPending # <<>>
     /\ Len(poolAvailable) + Cardinality(poolInUse \ {callBrowser[c]}) < PoolMax)
      => /\ callPc'[Head(poolPending)] = "holding"
         /\ callBrowser'[Head(poolPending)] # 0

\* C30: every pending acquire is settled exactly once (resolved with a
\* browser held by no other caller, or rejected by its timeout or by
\* close); whenever a release completes while acquires are pending and the
\* pool is below max, the oldest pending acquire obtains a browser, so no
\* waiter is left to time out while a browser slot is free.
C30_WaitersServedInOrder ==
  /\ [](SettledOnce /\ NoStrandedWaiter)
  /\ [][FifoOnRelease]_poolVars

\* The part about settling: at most once, and with a browser of its own.
C30_SettledAtMostOnce == SettledOnce

\* The part about the order, for the releases of a healthy browser.
C30_FifoOnHealthyRelease ==
  [][\A c \in Callers :
       (ReleaseCompletes(c) /\ poolDestroyed' = poolDestroyed /\ poolPending # <<>>)
         => /\ callPc'[Head(poolPending)] = "holding"
            /\ callBrowser'[Head(poolPending)] = callBrowser[c]]_poolVars


\* The part about free slots, as long as no browser was destroyed.
C30_NoStrandedWaiterWhileHealthy == poolDestroyed = {} => NoStrandedWaiter

====
